---- MODULE Spec2Model ----
(***************************************************************************)
(* Word targeting and entity lifecycle of ZPype (hitbox/zpype).            *)
(*                                                                         *)
(* The repository holds several prototypes of the same game.  A behaviour  *)
(* of this module is a run of one of them, selected by `variant`:          *)
(*   "trash1"  : TypingGame (src/trash/trash1.py) driven by testgame or    *)
(*               by GameplayState                                          *)
(*   "zpype"   : Game + GameState (src/zpype.py)                           *)
(*   "bullet"  : one EnemyShip and the Bullets fired at it (src/zpype.py)  *)
(*   "trash3"  : Shooter (src/trash/trash3.py)                             *)
(*   "driver"  : a Rect animated by its Driver (src/zpype.py)              *)
(*   "lerpiter": one lerpiter generator being drained                      *)
(*   "engine"  : Engine.run with the StateStack and its three states        *)
(*               (src/zpype.py)                                            *)
(*   "waves"   : GameplayState.update with its methodstack, the enemy       *)
(*               groups and the explosions (src/trash/trash1.py)           *)
(*   "placement": the loop that finds a position for a new enemy            *)
(*               (src/trash/trash1.py, src/trash/trash3.py,                *)
(*               src/framework.py)                                         *)
(* Words are sequences of one-character strings; None is 0 for object      *)
(* references and <<>> for optional values (<<v>> is the value v).         *)
(***************************************************************************)
EXTENDS Integers, Sequences, FiniteSets, TLC

VARIABLES
    variant,      \* which prototype runs
    \* ---- trash1.TypingGame
    vocabulary,   \* TypingGame.vocabulary: Word.initial of every Word object
    text,         \* Word.text of every Word object (indexed like vocabulary)
    current,      \* TypingGame.current: list of Word object ids
    lock,         \* TypingGame.lock: Word object id, 0 for None
    ret,          \* value returned by the last TypingGame.shoot (0 for None)
    caller,       \* who drives the TypingGame: "testgame" or "GameplayState"
    tgPc,         \* "run", or "raised" after an uncaught exception
    tgLast,       \* the TypingGame call made last: <<"init">>, <<"spawn">> or <<"shoot", letter>>;
                  \* <<"key">> after a key event that did not reach shoot
    \* ---- zpype.Game, zpype.GameState, zpype.Engine
    game,         \* Game.__init__ arguments: [words, maxspawn, minletters, maxletters]
    active_words, \* Game.active_words: list of remaining texts
    admitted,     \* for every entry of active_words, the text spawnmax admitted it with
    typing_at,    \* GameState.typing_at: <<>> for None (or unset), <<word>> otherwise
    groups,       \* the EnemyGroups that still have a sprite or a bullet, in creation order
    zState,       \* the state on top of g.statestack: "Mainmenu" or "Game"
    games,        \* number of GameState objects created so far
    keys,         \* parity of the number of key events GameState.on_KEYDOWN handled
    zPc,          \* "run", "spawnmax" inside Game.spawnmax, "raised" after an exception
    \* ---- trash3.Shooter
    level,        \* Shooter.level: words still to be spawned (popped from the end)
    letters,      \* Word.letters of every Word sprite created, in creation order
    group,        \* ids of the Word sprites in Shooter.group
    locked,       \* Shooter.locked: id of a Word sprite, 0 for None
    total, misses, hits, kills,   \* Shooter's counters
    \* ---- zpype.Rect, zpype.Driver
    driver,       \* Rect.driver: [iterable, attr]; iterable is [live, parts], None is live = FALSE
    rect,         \* the pg.Rect fields [x, y, w, h] of the Rect
    installed,    \* the iterable passed to the last Driver.run (<<>>: the one of Driver.__init__)
    assigned,     \* what Rect.update passed to setattr since then, in order
    frames,       \* the Rect.update calls since then: [d, up]
    \* ---- a lerpiter generator
    gen,          \* the generator: [kind, a, b, duration, step, lerpfunc, time, pc]
    yielded,      \* what next() returned so far, in order
    \* ---- zpype.Engine, g.statestack, g.sprites
    engine,       \* the engine and what it reaches through g, see NewEngine
    \* ---- the placement loops of trash1, trash3 and framework
    placing,      \* [placer, others, box, left, pc], see the placement section
    \* ---- trash1.GameplayState and its waves
    gameplaystate \* [methodstack, wave, wavetextsprite, enemygroups, explosions]

tgVars == <<vocabulary, text, current, lock, ret, caller, tgPc, tgLast>>
zVars == <<game, active_words, admitted, typing_at, groups, zState, games, keys, zPc>>
shVars == <<level, letters, group, locked, total, misses, hits, kills>>
anVars == <<driver, rect, installed, assigned, frames>>
lpVars == <<gen, yielded>>
vars == <<variant, tgVars, zVars, shVars, anVars, lpVars, engine, placing, gameplaystate>>

(***************************************************************************)
(* Words used as inputs.                                                   *)
(***************************************************************************)
wCat == <<"c", "a", "t">>
wAct == <<"a", "c", "t">>
wTag == <<"t", "a", "g">>
wDog == <<"d", "o", "g">>
wAnt == <<"a", "n", "t">>
wScat == <<"s", "c", "a", "t">>
wOx == <<"o", "x">>
wCabbage == <<"c", "a", "b", "b", "a", "g", "e">>

\* Characters a keystroke may carry.
Letters == {"a", "c", "t", "s", "d", "o", "g", "n", "x"}

\* Largest nwords passed to TypingGame.spawn.
MaxNwords == 2

Range(s) == {s[i] : i \in DOMAIN s}

IsSuffix(s, t) ==
    /\ Len(s) <= Len(t)
    /\ s = SubSeq(t, Len(t) - Len(s) + 1, Len(t))

RemoveAt(s, i) == SubSeq(s, 1, i - 1) \o SubSeq(s, i + 1, Len(s))

\* least element of a non-empty set of integers
Min(S) == CHOOSE x \in S : \A y \in S : x <= y

\* all orderings of a finite set, as sequences
Orderings(S) ==
    {s \in [1..Cardinality(S) -> S] : \A i, j \in DOMAIN s : i # j => s[i] # s[j]}

(***************************************************************************)
(* trash1.TypingGame                                                       *)
(***************************************************************************)
TGMinlength == 3
TGMaxlength == 6

\* vocabularies handed to TypingGame.__init__
Vocabularies ==
    { <<wCat, wAct, wTag, wOx, wCabbage>>,
      <<wAct, wAnt, wCat>> }

\* TypingGame.allowable: ids of the words whose current text has an allowed length
allowable ==
    {w \in DOMAIN vocabulary : TGMinlength <= Len(text[w]) /\ Len(text[w]) <= TGMaxlength}

\* `word in self.current`, which compares by Word.__eq__ (the texts)
InCurrent(w) == \E i \in DOMAIN current : text[current[i]] = text[w]

\* the for loop of spawn: index of the first soup word whose first letter is unused, 0 if none
FirstFresh(soup, firstletters) ==
    LET ok == {i \in DOMAIN soup : Head(text[soup[i]]) \notin firstletters}
    IN IF ok = {} THEN 0 ELSE Min(ok)

\* soup.remove(word): removes the first entry that equals word
SoupRemove(soup, w) ==
    RemoveAt(soup, Min({i \in DOMAIN soup : text[soup[i]] = text[w]}))

\* the while loop of spawn on a shuffled soup
RECURSIVE SpawnLoop(_, _, _)
SpawnLoop(soup, spawned, nwords) ==
    IF Len(spawned) >= nwords
    THEN [raised |-> FALSE, spawned |-> spawned]
    ELSE LET firstletters == {Head(text[spawned[i]]) : i \in DOMAIN spawned}
             i == FirstFresh(soup, firstletters)
         IN IF i = 0
            THEN [raised |-> TRUE, spawned |-> spawned]
            ELSE SpawnLoop(SoupRemove(soup, soup[i]), Append(spawned, soup[i]), nwords)

\* the outcomes of TypingGame.spawn(nwords), one per shuffle of the soup
SpawnOutcomes(nwords) ==
    {SpawnLoop(soup, <<>>, nwords) : soup \in Orderings({w \in allowable : ~InCurrent(w)})}

\* testgame: game.current.extend(game.spawn(nwords))
TestgameExtend(cur, spawned) == cur \o spawned

\* GameplayState.spawn: g.game.current.extend(spawned_words), written twice
GameplayExtend(cur, spawned) == cur \o spawned \o spawned

TestgameSpawn(nwords) ==
    /\ variant = "trash1" /\ tgPc = "run" /\ caller = "testgame"
    /\ current = <<>>
    /\ \E out \in SpawnOutcomes(nwords) :
         IF out.raised
         THEN /\ tgPc' = "raised"
              /\ UNCHANGED current
         ELSE /\ current' = TestgameExtend(current, out.spawned)
              /\ tgPc' = "run"
    /\ tgLast' = <<"spawn">>
    /\ UNCHANGED <<variant, engine, placing, gameplaystate, anVars, lpVars, vocabulary, text, lock, ret, caller, zVars, shVars>>

\* GameplayState.playing pushes spawn only when no enemy group is left; an enemy group
\* leaves only after all its letter sprites were killed, one per successful shoot
GameplaySpawn(nwords) ==
    /\ variant = "trash1" /\ tgPc = "run" /\ caller = "GameplayState"
    /\ \A i \in DOMAIN current : text[current[i]] = <<>>
    /\ \E out \in SpawnOutcomes(nwords) :
         IF out.raised
         THEN /\ tgPc' = "raised"
              /\ UNCHANGED current
         ELSE /\ current' = GameplayExtend(current, out.spawned)
              /\ tgPc' = "run"
    /\ tgLast' = <<"spawn">>
    /\ UNCHANGED <<variant, engine, placing, gameplaystate, anVars, lpVars, vocabulary, text, lock, ret, caller, zVars, shVars>>

\* shoot, lines 111-112: an exhausted lock is dropped
TGDropExhausted(lk) == IF lk # 0 /\ text[lk] = <<>> THEN 0 ELSE lk

\* a scan that prefers the last matching word of current
TGFindLockLast(letter) ==
    LET ok == {i \in DOMAIN current :
                  text[current[i]] # <<>> /\ Head(text[current[i]]) = letter}
    IN IF ok = {} THEN 0 ELSE current[CHOOSE x \in ok : \A y \in ok : x >= y]

\* shoot, lines 114-121: scan current from the start for a word whose head is letter
TGFindLock(letter) ==
    LET ok == {i \in DOMAIN current :
                  text[current[i]] # <<>> /\ Head(text[current[i]]) = letter}
    IN IF ok = {} THEN 0 ELSE current[Min(ok)]

\* a strip that drops the last letter instead of the first
TGStripLast(t) == SubSeq(t, 1, Len(t) - 1)

\* shoot, line 124: self.lock.text = self.lock.text[1:]
TGStrip(t) == Tail(t)

\* a miss that keeps the lock
TGMissKeep(lk) == lk

\* shoot, lines 125-126: the lock after a keystroke that did not hit
TGMiss(lk) == 0

\* TypingGame.shoot(letter)
Shoot(letter) ==
    /\ variant = "trash1" /\ tgPc = "run"
    /\ LET lock1 == TGDropExhausted(lock)
           lock2 == IF lock1 = 0 THEN TGFindLock(letter) ELSE lock1
           hit == lock2 # 0 /\ letter = Head(text[lock2])
       IN /\ text' = IF hit THEN [text EXCEPT ![lock2] = TGStrip(@)] ELSE text
          /\ lock' = IF hit THEN lock2 ELSE TGMiss(lock2)
          /\ ret' = lock'
    /\ tgLast' = <<"shoot", letter>>
    /\ UNCHANGED <<variant, engine, placing, gameplaystate, anVars, lpVars, vocabulary, current, caller, tgPc, zVars, shVars>>

\* string.ascii_lowercase
AsciiLowercase ==
    <<"a", "b", "c", "d", "e", "f", "g", "h", "i", "j", "k", "l", "m",
      "n", "o", "p", "q", "r", "s", "t", "u", "v", "w", "x", "y", "z">>

\* `u in s` for strings: u occurs in s as a substring
InStr(u, s) == \E i \in 0..(Len(s) - Len(u)) : SubSeq(s, i + 1, i + Len(u)) = u

\* event.unicode of the key events that carry no single letter: a key without a
\* character, a digit, and a string of two characters
OtherUnicodes == { <<>>, <<"1">>, <<"s", "t">> }

\* event.key
Keycodes == {"K_ESCAPE", "K_OTHER"}

\* GameplayState.on_KeyDown(event); playing: is_playing().  GameplayState.shoot passes
\* the character on to TypingGame.shoot, whose first line is `assert len(letter) == 1`
OnKeyDown(key, unicode, playing) ==
    /\ variant = "trash1" /\ tgPc = "run" /\ caller = "GameplayState"
    /\ IF key # "K_ESCAPE" /\ playing /\ InStr(unicode, AsciiLowercase)
       THEN IF Len(unicode) = 1
            THEN Shoot(unicode[1])
            ELSE /\ tgPc' = "raised"
                 /\ tgLast' = <<"key">>
                 /\ UNCHANGED <<variant, engine, placing, gameplaystate, anVars, lpVars, vocabulary, text, current, lock, ret, caller, zVars, shVars>>
       ELSE /\ tgLast' = <<"key">>
            /\ UNCHANGED <<variant, engine, placing, gameplaystate, anVars, lpVars, vocabulary, text, current, lock, ret, caller, tgPc, zVars, shVars>>

IdleTG ==
    /\ vocabulary = <<>> /\ text = <<>> /\ current = <<>> /\ lock = 0 /\ ret = 0
    /\ caller = "" /\ tgPc = "off" /\ tgLast = <<>>

IdleZ ==
    /\ game = [words |-> {}, maxspawn |-> 0, minletters |-> 0, maxletters |-> 0]
    /\ active_words = <<>> /\ admitted = <<>> /\ typing_at = <<>> /\ groups = <<>>
    /\ zState = "" /\ games = 0 /\ keys = 0 /\ zPc = "off"

IdleSh ==
    /\ level = <<>> /\ letters = <<>> /\ group = {} /\ locked = 0
    /\ total = 0 /\ misses = 0 /\ hits = 0 /\ kills = 0

NoneIterable == [live |-> FALSE, parts |-> <<>>]

IdleAn ==
    /\ driver = [iterable |-> NoneIterable, attr |-> ""]
    /\ rect = [x |-> 0, y |-> 0, w |-> 0, h |-> 0]
    /\ installed = <<>> /\ assigned = <<>> /\ frames = <<>>

NoGen ==
    [kind |-> "", a |-> 0, b |-> 0, duration |-> 0, step |-> 0, lerpfunc |-> "",
     time |-> 0, pc |-> "off"]

IdleLp == gen = NoGen /\ yielded = <<>>

\* no Engine was built
NoEngine == [running |-> FALSE]

IdleEn == engine = NoEngine

\* nothing is being placed
NoPlacing == [pc |-> "off"]

IdlePl == placing = NoPlacing

\* no GameplayState was constructed
NoGameplay == [methodstack |-> <<>>]

IdleGp == gameplaystate = NoGameplay

InitTG ==
    /\ variant = "trash1"
    /\ IdleZ
    /\ IdleSh
    /\ IdleAn /\ IdleLp /\ IdleEn /\ IdlePl /\ IdleGp
    /\ vocabulary \in Vocabularies
    /\ text = vocabulary
    /\ current = <<>>
    /\ lock = 0
    /\ ret = 0
    /\ caller \in {"testgame", "GameplayState"}
    /\ tgPc = "run"
    /\ tgLast = <<"init">>

NextTG ==
    \/ \E n \in 1..MaxNwords : TestgameSpawn(n)
    \/ \E n \in 1..MaxNwords : GameplaySpawn(n)
    \/ \E c \in Letters : Shoot(c)
    \/ \E key \in Keycodes, unicode \in OtherUnicodes \cup {<<c>> : c \in Letters}, playing \in BOOLEAN :
          OnKeyDown(key, unicode, playing)

SpecTG == InitTG /\ [][NextTG]_vars

(***************************************************************************)
(* zpype.Game, zpype.GameState (src/zpype.py)                              *)
(***************************************************************************)
\* defaults of Game.__init__
DefaultMinletters == 3
DefaultMaxletters == 6

\* Bullet.duration (.25 s) in milliseconds
BulletDuration == 250

\* Largest number of games started from the main menu in one run.
MaxGames == 2

\* values clock.tick() returns, in milliseconds
DtSet == {125, 250}

\* Game({"cat", "dog", "ant"}, 2): the length range is Game.__init__'s default
DefaultRangeGame ==
    [words |-> {wCat, wDog, wAnt}, maxspawn |-> 2,
     minletters |-> DefaultMinletters, maxletters |-> DefaultMaxletters]

\* a dictionary whose words all start with the same letter
OneLetterGame ==
    [words |-> {wAct, wAnt}, maxspawn |-> 2, minletters |-> 3, maxletters |-> 3]

\* arguments main (or a caller) constructs Game with
Configs ==
    { [words |-> {wCat, wAct, wScat}, maxspawn |-> 2, minletters |-> 3, maxletters |-> 4],
      DefaultRangeGame,
      OneLetterGame }

\* Game.dictionary[nletters]
Bucket(nletters) == {w \in game.words : Len(w) = nletters}

\* str.startswith for a one-character prefix
StartsWith(word, letter) == word # <<>> /\ Head(word) = letter

\* list.index(word): first index holding word, 0 if absent (ValueError)
Index(aw, word) ==
    LET ok == {i \in DOMAIN aw : aw[i] = word}
    IN IF ok = {} THEN 0 ELSE Min(ok)

\* Game.find: the first active word starting with letter, <<>> for None
Find(aw, letter) ==
    LET ok == {i \in DOMAIN aw : StartsWith(aw[i], letter)}
    IN IF ok = {} THEN <<>> ELSE <<aw[Min(ok)]>>

\* a strip that drops the last letter of an active word
HitStripTail(w) == SubSeq(w, 1, Len(w) - 1)

\* Game.hit_word, line 159: active_words[index][1:]
HitStrip(w) == Tail(w)

\* a hit_word that leaves the empty string of a word typed to its end in the list
HitWordKeepsEmpty(aw, adm, word) ==
    LET index == Index(aw, word)
    IN IF index = 0
       THEN [raised |-> TRUE, aw |-> aw, adm |-> adm, ret |-> <<>>]
       ELSE LET stripped == HitStrip(aw[index])
            IN [raised |-> FALSE, aw |-> [aw EXCEPT ![index] = stripped], adm |-> adm,
                ret |-> IF stripped = <<>> THEN <<>> ELSE <<stripped>>]

\* Game.hit_word on the list aw (and the same positions of the admitted texts)
HitWord(aw, adm, word) ==
    LET index == Index(aw, word)
    IN IF index = 0
       THEN [raised |-> TRUE, aw |-> aw, adm |-> adm, ret |-> <<>>]
       ELSE LET stripped == HitStrip(aw[index])
            IN IF stripped = <<>>
               THEN [raised |-> FALSE, aw |-> RemoveAt(aw, index),
                     adm |-> RemoveAt(adm, index), ret |-> <<>>]
               ELSE [raised |-> FALSE, aw |-> [aw EXCEPT ![index] = stripped],
                     adm |-> adm, ret |-> <<stripped>>]

\* an EnemyGroup found by Group.allgroups: one with a sprite left in g.sprites
Visible(grp) == grp.alive \/ grp.letters # <<>>

\* an EnemyGroup nothing refers to any more
Gone(grp) == ~Visible(grp) /\ grp.bullets = <<>>

RECURSIVE Collect(_)
Collect(gs) ==
    IF gs = <<>> THEN <<>>
    ELSE IF Gone(Head(gs)) THEN Collect(Tail(gs))
    ELSE <<Head(gs)>> \o Collect(Tail(gs))

\* an EnemyShip whose health is one more than the length of its word
NewGroupExtraHealth(word) ==
    [word |-> word, shipword |-> word, letters |-> word, health |-> Len(word) + 1,
     alive |-> TRUE, bullets |-> <<>>]

\* EnemyGroup(word, size) with its EnemyShip and LetterGroup
NewGroup(word) ==
    [word |-> word, shipword |-> word, letters |-> word, health |-> Len(word),
     alive |-> TRUE, bullets |-> <<>>]

\* GameState.kill_letter, lines 679-688: the first LetterSprite carrying letter is
\* killed and a Bullet is fired at the group's ship
KillSprite(grp, letter) ==
    LET ok == {i \in DOMAIN grp.letters : grp.letters[i] = letter}
    IN IF ok = {} THEN grp
       ELSE [grp EXCEPT !.letters = RemoveAt(@, Min(ok)),
                        !.bullets = Append(@, 0)]

\* a kill_letter that kills the letter sprite and leaves group.word as it is
KillLetterKeepsWord(gs, word, letter) ==
    LET ok == {i \in DOMAIN gs : Visible(gs[i]) /\ gs[i].word = word}
    IN IF ok = {} THEN gs
       ELSE [gs EXCEPT ![Min(ok)] = KillSprite(gs[Min(ok)], letter)]

\* GameState.kill_letter: acts on the first EnemyGroup whose word equals word
KillLetter(gs, word, letter) ==
    LET ok == {i \in DOMAIN gs : Visible(gs[i]) /\ gs[i].word = word}
    IN IF ok = {} THEN gs
       ELSE LET i == Min(ok)
            IN [gs EXCEPT ![i] = KillSprite([gs[i] EXCEPT !.word = Tail(word)], letter)]

\* GameState.do_typed(letter)
DoTyped(letter) ==
    LET target == IF typing_at = <<>> THEN Find(active_words, letter)
                  ELSE IF StartsWith(typing_at[1], letter) THEN typing_at ELSE <<>>
    IN IF target = <<>>
       THEN UNCHANGED <<active_words, admitted, typing_at, groups, zPc>>
       ELSE LET hw == HitWord(active_words, admitted, target[1])
            IN /\ groups' = Collect(KillLetter(groups, target[1], letter))
               /\ active_words' = hw.aw
               /\ admitted' = hw.adm
               /\ typing_at' = IF hw.raised THEN typing_at ELSE hw.ret
               /\ zPc' = IF hw.raised THEN "raised" ELSE zPc

\* GameState.on_KEYDOWN with a character key (Engine.handle_event while GameState is on top)
Typed(letter) ==
    /\ variant = "zpype" /\ zPc = "run" /\ zState = "Game"
    /\ DoTyped(letter)
    /\ keys' = 1 - keys
    /\ UNCHANGED <<variant, engine, placing, gameplaystate, anVars, lpVars, tgVars, shVars, game, zState, games>>

\* a Bullet.update whose impact destroys the ship one health early
BulletsUpdateEarlyKill(grp, d) ==
    LET flown == [i \in DOMAIN grp.bullets |-> grp.bullets[i] + d]
        landed == Cardinality({i \in DOMAIN flown : flown[i] >= BulletDuration})
    IN [grp EXCEPT
          !.bullets = SubSeq(flown, landed + 1, Len(flown)),
          !.health = @ - landed,
          !.alive = IF landed >= 1 /\ grp.health <= landed + 1 THEN FALSE ELSE @]

\* GameState.on_KEYDOWN with a key other than K_ESCAPE whose event.unicode is not a
\* letter: nothing is done for an empty string, do_typed is called with any other
OnKeydownOther(unicode) ==
    /\ variant = "zpype" /\ zPc = "run" /\ zState = "Game"
    /\ IF unicode # <<>>
       THEN DoTyped(unicode[1])
       ELSE UNCHANGED <<active_words, admitted, typing_at, groups, zPc>>
    /\ keys' = 1 - keys
    /\ UNCHANGED <<variant, engine, placing, gameplaystate, anVars, lpVars, tgVars, shVars, game, zState, games>>

\* a Bullet.update that takes the health and never kills the ship
BulletsUpdateNoKill(grp, d) ==
    LET flown == [i \in DOMAIN grp.bullets |-> grp.bullets[i] + d]
        landed == Cardinality({i \in DOMAIN flown : flown[i] >= BulletDuration})
    IN [grp EXCEPT
          !.bullets = SubSeq(flown, landed + 1, Len(flown)),
          !.health = @ - landed]

\* Bullet.update for the bullets flying at one ship, with g.dt = d
BulletsUpdate(grp, d) ==
    LET flown == [i \in DOMAIN grp.bullets |-> grp.bullets[i] + d]
        landed == Cardinality({i \in DOMAIN flown : flown[i] >= BulletDuration})
    IN [grp EXCEPT
          !.bullets = SubSeq(flown, landed + 1, Len(flown)),
          !.health = @ - landed,
          !.alive = IF 1 <= grp.health /\ grp.health <= landed THEN FALSE ELSE @]

\* g.sprites.update()
SpritesUpdate(gs, d) == Collect([i \in DOMAIN gs |-> BulletsUpdate(gs[i], d)])

\* GameState.gameplay, line 625: no Enemy sprite is left in g.sprites
NoEnemy == \A i \in DOMAIN groups : ~groups[i].alive

\* Engine.step with do_step set: the state's update, then g.sprites.update().
\* d: g.dt of the frame; runs: whether the phase on top of the state's brain is gameplay
Frame(d, runs) ==
    /\ variant = "zpype" /\ zPc = "run"
    /\ IF zState = "Game" /\ runs /\ NoEnemy
       THEN /\ zPc' = "spawnmax"
            /\ UNCHANGED groups
       ELSE /\ groups' = SpritesUpdate(groups, d)
            /\ UNCHANGED zPc
    /\ UNCHANGED <<variant, engine, placing, gameplaystate, anVars, lpVars, tgVars, shVars, game, active_words, admitted, typing_at, zState, games, keys>>

\* Game.spawnmax, lines 175-177: whether the drawn word is admitted
Admits(aw, word) ==
    /\ word \notin Range(aw)
    /\ ~\E i \in DOMAIN aw : StartsWith(aw[i], Head(word))

\* one iteration of the while loop of Game.spawnmax
SpawnmaxIter ==
    /\ variant = "zpype" /\ zPc = "spawnmax"
    /\ Len(active_words) < game.maxspawn
    /\ \E nletters \in game.minletters..game.maxletters :
         IF Bucket(nletters) = {}
         THEN \* random.choice of an empty list: IndexError
              /\ zPc' = "raised"
              /\ UNCHANGED <<active_words, admitted>>
         ELSE \E word \in Bucket(nletters) :
                /\ IF Admits(active_words, word)
                   THEN /\ active_words' = Append(active_words, word)
                        /\ admitted' = Append(admitted, word)
                   ELSE UNCHANGED <<active_words, admitted>>
                /\ UNCHANGED zPc
    /\ UNCHANGED <<variant, engine, placing, gameplaystate, anVars, lpVars, tgVars, shVars, game, typing_at, groups, zState, games, keys>>

\* the exit of the loop, the rest of GameState.do_spawn and of Engine.step
\* (d: g.dt of the frame, which spawnmax does not read)
SpawnmaxDone(d) ==
    /\ variant = "zpype" /\ zPc = "spawnmax"
    /\ Len(active_words) >= game.maxspawn
    /\ groups' = SpritesUpdate(
                   groups \o [i \in DOMAIN active_words |-> NewGroup(active_words[i])], d)
    /\ zPc' = "run"
    /\ UNCHANGED <<variant, engine, placing, gameplaystate, anVars, lpVars, tgVars, shVars, game, active_words, admitted, typing_at, zState, games, keys>>

\* enemy.kill() for the sprites of one EnemyGroup, as GameState.outro calls it for
\* every sprite of self.enemies
EnemyKill(grp) == [grp EXCEPT !.alive = FALSE, !.letters = <<>>]

\* GameState.outro once the player has flown off: every enemy sprite is killed and the
\* GameState is popped, which leaves MainmenuState on top.  The fly-off animation of
\* outro_init lasts 1.125 s of frame time with the handlers disabled, longer than
\* Bullet.duration, so every bullet has landed by then.
Outro ==
    /\ variant = "zpype" /\ zPc = "run" /\ zState = "Game"
    /\ \A i \in DOMAIN groups : groups[i].bullets = <<>>
    /\ groups' = Collect([i \in DOMAIN groups |-> EnemyKill(groups[i])])
    /\ zState' = "Mainmenu"
    /\ UNCHANGED <<variant, engine, placing, gameplaystate, anVars, lpVars, tgVars, shVars, game, active_words, admitted, typing_at, games, keys, zPc>>

\* MainmenuState.outro: g.statestack.append(GameState()); the new GameState has no
\* typing_at attribute yet, g.game is the Game main created
StartGame ==
    /\ variant = "zpype" /\ zPc = "run" /\ zState = "Mainmenu"
    /\ games < MaxGames
    /\ zState' = "Game"
    /\ games' = games + 1
    /\ typing_at' = <<>>
    /\ UNCHANGED <<variant, engine, placing, gameplaystate, anVars, lpVars, tgVars, shVars, game, active_words, admitted, groups, keys, zPc>>

InitZ ==
    /\ variant = "zpype"
    /\ IdleTG
    /\ IdleSh
    /\ IdleAn /\ IdleLp /\ IdleEn /\ IdlePl /\ IdleGp
    /\ game \in Configs
    /\ active_words = <<>> /\ admitted = <<>> /\ typing_at = <<>> /\ groups = <<>>
    /\ zState = "Mainmenu" /\ games = 0 /\ keys = 0 /\ zPc = "run"

NextZ ==
    \/ \E c \in Letters : Typed(c)
    \/ \E unicode \in {u \in OtherUnicodes : Len(u) <= 1} : OnKeydownOther(unicode)
    \/ \E d \in DtSet, runs \in BOOLEAN : Frame(d, runs)
    \/ SpawnmaxIter
    \/ \E d \in DtSet : SpawnmaxDone(d)
    \/ Outro
    \/ StartGame

SpecZ == InitZ /\ [][NextZ]_vars

\* a frame that Engine.step runs with gameplay on top of GameState's brain
GameplayFrame == \E d \in DtSet : Frame(d, TRUE)

\* Engine.run keeps calling Engine.step, and g.dt of a frame is positive: a frame
\* that has something to do is run, a draw of Game.spawnmax that can admit a word
\* is made (random.choice gives every word a positive probability), and
\* do_spawn goes on after the loop.
SpecZLive ==
    /\ InitZ /\ [][NextZ]_vars
    /\ WF_vars(GameplayFrame)
    /\ WF_vars(SpawnmaxIter)
    /\ WF_vars(\E d \in DtSet : SpawnmaxDone(d))

(***************************************************************************)
(* zpype.Bullet and its target (src/zpype.py), variant "bullet": one        *)
(* EnemyShip with its letters, the Bullets GameState.shoot_at fires at it,  *)
(* Sprite.kill() on the ship, and Bullet.update frame by frame.  `groups`   *)
(* holds the one EnemyGroup; a group is kept after its last sprite is gone. *)
(***************************************************************************)
\* the words of the ship
BulletWords == {wOx, wCat}

\* GameState.kill_letter on the head letter of the group's word: one LetterSprite is
\* killed and one Bullet is fired at the ship
BulletShoot ==
    /\ variant = "bullet"
    /\ Visible(groups[1]) /\ groups[1].word # <<>>
    /\ groups' = KillLetter(groups, groups[1].word, Head(groups[1].word))
    /\ UNCHANGED <<variant, engine, placing, gameplaystate, anVars, lpVars, tgVars, shVars, game, active_words, admitted, typing_at, zState, games, keys, zPc>>

\* enemy.kill() on the ship and its letters while it is in g.sprites
BulletTargetKilled ==
    /\ variant = "bullet"
    /\ groups[1].alive
    /\ groups' = <<EnemyKill(groups[1])>>
    /\ UNCHANGED <<variant, engine, placing, gameplaystate, anVars, lpVars, tgVars, shVars, game, active_words, admitted, typing_at, zState, games, keys, zPc>>

\* g.sprites.update() with g.dt = d: Bullet.update of every bullet in flight
BulletFrame(d) ==
    /\ variant = "bullet"
    /\ groups[1].bullets # <<>>
    /\ groups' = <<BulletsUpdate(groups[1], d)>>
    /\ UNCHANGED <<variant, engine, placing, gameplaystate, anVars, lpVars, tgVars, shVars, game, active_words, admitted, typing_at, zState, games, keys, zPc>>

\* EnemyGroup(word, size)
InitBu ==
    /\ variant = "bullet"
    /\ IdleTG /\ IdleSh /\ IdleAn /\ IdleLp /\ IdleEn /\ IdlePl /\ IdleGp
    /\ game = [words |-> {}, maxspawn |-> 0, minletters |-> 0, maxletters |-> 0]
    /\ active_words = <<>> /\ admitted = <<>> /\ typing_at = <<>>
    /\ zState = "" /\ games = 0 /\ keys = 0 /\ zPc = "off"
    /\ \E word \in BulletWords : groups = <<NewGroup(word)>>

NextBu ==
    \/ BulletShoot
    \/ BulletTargetKilled
    \/ \E d \in DtSet : BulletFrame(d)

SpecBu == InitBu /\ [][NextBu]_vars

(***************************************************************************)
(* trash3.Shooter (src/trash/trash3.py).  The Word sprite class it uses is *)
(* not part of the sources; Word.hit and Word.kill follow the               *)
(* specification: hit strips the head letter, kill removes the sprite.     *)
(***************************************************************************)
\* Largest number of keystrokes given to Shooter.attack in one run.
MaxAttacks == 5

\* Shooter.update, line 93: words are spawned while fewer than this many are in the group
ShooterMaxWords == 4

\* values of Shooter.level (random.sample of the word list)
Levels == { <<wAnt, wAct, wDog>>, <<wCat, wDog>> }

\* Word.hit(): the head letter is stripped
WordHit(ls) == Tail(ls)

\* attack, lines 58-65: the first Word of bynearest whose head is letter, 0 if none
\* (the for loop's else branch)
ShAcquire(bynearest, letter) ==
    LET ok == {i \in DOMAIN bynearest : Head(letters[bynearest[i]]) = letter}
    IN IF ok = {} THEN 0 ELSE bynearest[Min(ok)]

\* a mismatch that also drops the lock
ShMismatchDrop(lk) == [locked |-> 0, misses |-> misses + 1]

\* a mismatch that is not counted
ShMismatchUncounted(lk) == [locked |-> lk, misses |-> misses]

\* attack, lines 79-80: a keystroke that does not match the locked word's head
ShMismatch(lk) == [locked |-> lk, misses |-> misses + 1]

\* a hit that never releases the lock
ShAfterHitKeep(lk, ls) == lk

\* attack, lines 75-78: the lock after a hit that left ls of the locked word lk
ShAfterHit(lk, ls) == IF ls = <<>> THEN 0 ELSE lk

\* Shooter.attack(letter); bynearest is self.group sorted by distance to the ship
Attack(letter, bynearest) ==
    /\ variant = "trash3"
    /\ total < MaxAttacks
    /\ total' = total + 1
    /\ LET lock1 == IF locked = 0 THEN ShAcquire(bynearest, letter) ELSE locked
       IN IF lock1 = 0
          THEN /\ misses' = misses + 1
               /\ UNCHANGED <<letters, group, locked, hits, kills>>
          ELSE IF letters[lock1] # <<>> /\ Head(letters[lock1]) = letter
          THEN LET left == WordHit(letters[lock1])
               IN /\ letters' = [letters EXCEPT ![lock1] = left]
                  /\ hits' = hits + 1
                  /\ kills' = IF left = <<>> THEN kills + 1 ELSE kills
                  /\ group' = IF left = <<>> THEN group \ {lock1} ELSE group
                  /\ locked' = ShAfterHit(lock1, left)
                  /\ UNCHANGED misses
          ELSE IF letters[lock1] # <<>>
          THEN /\ locked' = ShMismatch(lock1).locked
               /\ misses' = ShMismatch(lock1).misses
               /\ UNCHANGED <<letters, group, hits, kills>>
          ELSE /\ locked' = lock1
               /\ UNCHANGED <<letters, group, misses, hits, kills>>
    /\ UNCHANGED <<variant, engine, placing, gameplaystate, anVars, lpVars, tgVars, zVars, level>>

\* Shooter.update: a lock on a dead sprite is dropped; the next word of the level is
\* spawned while fewer than four words are in the group
ShooterUpdate ==
    /\ variant = "trash3"
    /\ locked' = IF locked # 0 /\ locked \notin group THEN 0 ELSE locked
    /\ IF Cardinality(group) < ShooterMaxWords /\ level # <<>>
       THEN /\ level' = SubSeq(level, 1, Len(level) - 1)
            /\ letters' = Append(letters, level[Len(level)])
            /\ group' = group \cup {Len(letters) + 1}
       ELSE UNCHANGED <<level, letters, group>>
    /\ UNCHANGED <<variant, engine, placing, gameplaystate, anVars, lpVars, tgVars, zVars, total, misses, hits, kills>>

InitSh ==
    /\ variant = "trash3"
    /\ IdleTG
    /\ IdleZ
    /\ IdleAn /\ IdleLp /\ IdleEn /\ IdlePl /\ IdleGp
    /\ level \in Levels
    /\ letters = <<>> /\ group = {} /\ locked = 0
    /\ total = 0 /\ misses = 0 /\ hits = 0 /\ kills = 0

NextSh ==
    \/ \E c \in Letters : \E bynearest \in Orderings(group) : Attack(c, bynearest)
    \/ ShooterUpdate

SpecSh == InitSh /\ [][NextSh]_vars

(***************************************************************************)
(* zpype.Driver, zpype.Rect.update, util.lerpiter, util.lerpsiter          *)
(* (src/zpype.py).  Time runs in milliseconds.  A float is the pair        *)
(* <<n, d>> with d > 0, that is n / d, so that "exactly b" can be told     *)
(* from "close to b".  A position is a pair of coordinates.                *)
(***************************************************************************)

\* Idle Rect.update calls that are followed after the animation has ended.
MaxIdleUpdates == 2

\* g.dt of the frames that advance an animation
FrameDts == {250, 400}

\* int(): truncation toward zero, as pg.Rect applies it to a coordinate
Trunc(q) == IF q[1] >= 0 THEN q[1] \div q[2] ELSE -((-q[1]) \div q[2])

TruncPoint(v) == <<Trunc(v[1]), Trunc(v[2])>>

\* util.lerp(a, b, t): (1 - t) * a + t * b
lerp(a, b, t) == <<(t[2] - t[1]) * a + t[1] * b, t[2]>>

\* math.sin(t * math.pi / 2) for t in [0, 1], by Bhaskara's rational approximation
\* 4t(2 - t) / (5 - t(2 - t)); like math.sin it is exactly 0 at 0 and exactly 1 at 1
SinFraction(t) ==
    <<4 * t[1] * (2 * t[2] - t[1]), 5 * t[2] * t[2] - t[1] * (2 * t[2] - t[1])>>

\* util.sinlerp(a, b, t): f = sin(t * pi / 2); (1 - f) * a + f * b
sinlerp(a, b, t) == LET f == SinFraction(t) IN <<(f[2] - f[1]) * a + f[1] * b, f[2]>>

\* the fraction a lerpfunc blends a and b with
Fraction(lerpfunc, t) == IF lerpfunc = "sinlerp" THEN SinFraction(t) ELSE t

\* lerpfunc(a, b, t)
Call(lerpfunc, a, b, t) == IF lerpfunc = "sinlerp" THEN sinlerp(a, b, t) ELSE lerp(a, b, t)

\* a loop test that lets one more frame through
LoopTestLate(time, duration, up) == time <= duration + Min(FrameDts)

\* `while time <= duration`.  time is a sum of floats g.dt / 1000: where the exact sum
\* equals duration the float may have been rounded above it (up)
LoopTest(time, duration, up) == time < duration \/ (time = duration /\ ~up)

\* `if time != duration` after the loop
TimeDiffers(time, duration, up) == time # duration \/ up

Stopped(g) ==
    [stop |-> TRUE, value |-> <<0, 1>>, t |-> <<0, 1>>, f |-> <<0, 1>>,
     gen |-> [g EXCEPT !.pc = "done"]]

Yield(g, t, time, pc) ==
    [stop |-> FALSE, value |-> Call(g.lerpfunc, g.a, g.b, t), t |-> t,
     f |-> Fraction(g.lerpfunc, t), gen |-> [g EXCEPT !.time = time, !.pc = pc]]

\* next() on a util.lerpiter(a, b, duration, lerpfunc) generator while g.dt = d.
\* pc is "start" before the first next(), "loop" while suspended at the yield of the
\* loop, "final" at the yield after the loop, "done" once StopIteration was raised
LerpiterNext(g, d, up) ==
    LET time == IF g.pc = "start" THEN 0 ELSE g.time + d
    IN  IF g.pc \in {"final", "done"} THEN Stopped(g)
        ELSE IF LoopTest(time, g.duration, up)
             THEN Yield(g, <<time, g.duration>>, time, "loop")
        ELSE IF TimeDiffers(time, g.duration, up)
             THEN Yield(g, <<1, 1>>, time, "final")
        ELSE Stopped(g)

\* util.lerpsiter(seq1, seq2, duration, lerpfunc), a generator not yet started
Lerpsiter(seq1, seq2, duration, lerpfunc) ==
    [seq1 |-> seq1, seq2 |-> seq2, duration |-> duration, lerpfunc |-> lerpfunc,
     time |-> 0, pc |-> "start"]

\* the util.lerpiter that lerpsiter builds for coordinate i
Component(g, i) ==
    [a |-> g.seq1[i], b |-> g.seq2[i], duration |-> g.duration,
     lerpfunc |-> g.lerpfunc, time |-> g.time, pc |-> g.pc]

\* next() on a util.lerpsiter generator.  Its lerpiters have the same duration and are
\* resumed in the same call, so they hold the same time and stop in the same round; that
\* round yields nothing and ends the generator.
LerpsiterNext(g, d, up) ==
    LET rx == LerpiterNext(Component(g, 1), d, up)
        ry == LerpiterNext(Component(g, 2), d, up)
    IN  [stop |-> rx.stop /\ ry.stop, value |-> <<rx.value, ry.value>>, t |-> rx.t,
         f |-> rx.f, a |-> g.seq1, b |-> g.seq2,
         gen |-> [g EXCEPT !.time = rx.gen.time, !.pc = rx.gen.pc]]

\* Driver.__next__: next(self.iterable).  iterable is the it.chain of the generators in
\* parts; iter(tuple()) has none
RECURSIVE ChainNext(_, _, _)
ChainNext(parts, d, up) ==
    IF parts = <<>>
    THEN [stop |-> TRUE, value |-> <<>>, t |-> <<0, 1>>, f |-> <<0, 1>>,
          a |-> <<>>, b |-> <<>>, parts |-> <<>>]
    ELSE LET r == LerpsiterNext(Head(parts), d, up)
         IN  IF r.stop THEN ChainNext(Tail(parts), d, up)
             ELSE [stop |-> FALSE, value |-> r.value, t |-> r.t, f |-> r.f,
                   a |-> r.a, b |-> r.b, parts |-> <<r.gen>> \o Tail(parts)]

\* the rect every animation starts from (x, y: topleft)
Rect0 == [x |-> 0, y |-> 0, w |-> 5, h |-> 3]

\* setattr(rect, name, value) on a pg.Rect: the coordinates are truncated to int
SetAttr(r, name, value) ==
    LET v == TruncPoint(value)
    IN  CASE name = "center" -> [r EXCEPT !.x = v[1] - r.w \div 2, !.y = v[2] - r.h \div 2]
          [] name = "midleft" -> [r EXCEPT !.x = v[1], !.y = v[2] - r.h \div 2]
          [] name = "midbottom" -> [r EXCEPT !.x = v[1] - r.w \div 2, !.y = v[2] - r.h]

\* getattr(rect, name)
GetAttr(r, name) ==
    CASE name = "center" -> <<r.x + r.w \div 2, r.y + r.h \div 2>>
      [] name = "midleft" -> <<r.x, r.y + r.h \div 2>>
      [] name = "midbottom" -> <<r.x + r.w \div 2, r.y + r.h>>

\* the driver.run calls of MainmenuState.intro_init, MainmenuState.outro_init and
\* GameState.outro_init
Runs ==
    { [iterable |-> <<Lerpsiter(<<9, 4>>, <<2, 4>>, 1000, "lerp")>>, attr |-> <<"midleft">>],
      [iterable |-> <<Lerpsiter(<<0, 4>>, <<0, 4>>, 250, "lerp"),
                      Lerpsiter(<<0, 4>>, <<7, 4>>, 1000, "lerp")>>, attr |-> <<"midleft">>],
      [iterable |-> <<Lerpsiter(<<4, 6>>, <<4, 9>>, 1000, "lerp")>>, attr |-> <<"midbottom">>],
      [iterable |-> <<Lerpsiter(<<4, 6>>, <<4, 12>>, 125, "sinlerp"),
                      Lerpsiter(<<4, 0>>, <<4, -2>>, 1000, "sinlerp")>>, attr |-> <<"center">>] }

\* Driver.run(iterable, attr)
DriverRun(run) ==
    /\ variant = "driver"
    /\ driver' = [iterable |-> [live |-> TRUE, parts |-> run.iterable],
                  attr |-> IF run.attr # <<>> THEN run.attr[1] ELSE driver.attr]
    /\ installed' = run.iterable
    /\ assigned' = <<>>
    /\ frames' = <<>>
    /\ UNCHANGED <<variant, engine, placing, gameplaystate, tgVars, zVars, shVars, lpVars, rect>>

\* an exhausted iterable that is left installed
ExhaustedKeep(iterable) == iterable

\* except StopIteration: self.driver.iterable = None
Exhausted(iterable) == NoneIterable

\* the float sum of a suspended generator can only round away from an exact sum that
\* equals its duration
AtBoundary(parts, d) ==
    /\ parts # <<>>
    /\ Head(parts).pc = "loop"
    /\ Head(parts).time + d = Head(parts).duration

\* Rect.update in a frame with g.dt = d
RectUpdate(d, up) ==
    /\ variant = "driver"
    /\ driver.iterable.live \/ Len(frames) < Len(assigned) + 1 + MaxIdleUpdates
    /\ up => driver.iterable.live /\ AtBoundary(driver.iterable.parts, d)
    /\ frames' = Append(frames, [d |-> d, up |-> up])
    /\ IF driver.iterable.live
       THEN LET r == ChainNext(driver.iterable.parts, d, up)
            IN  IF r.stop
                THEN /\ driver' = [driver EXCEPT !.iterable = Exhausted(@)]
                     /\ UNCHANGED <<rect, assigned>>
                ELSE /\ driver' = [driver EXCEPT !.iterable.parts = r.parts]
                     /\ rect' = SetAttr(rect, driver.attr, r.value)
                     /\ assigned' = Append(assigned, [value |-> r.value, t |-> r.t,
                                                      f |-> r.f, a |-> r.a, b |-> r.b])
       ELSE UNCHANGED <<driver, rect, assigned>>
    /\ UNCHANGED <<variant, engine, placing, gameplaystate, tgVars, zVars, shVars, lpVars, installed>>

\* Rect.__init__ and Driver.__init__
InitAn ==
    /\ variant = "driver"
    /\ IdleTG /\ IdleZ /\ IdleSh /\ IdleLp /\ IdleEn /\ IdlePl /\ IdleGp
    /\ driver = [iterable |-> [live |-> TRUE, parts |-> <<>>], attr |-> "center"]
    /\ rect = Rect0
    /\ installed = <<>> /\ assigned = <<>> /\ frames = <<>>

NextAn ==
    \/ \E run \in Runs : DriverRun(run)
    \/ \E d \in FrameDts, up \in BOOLEAN : RectUpdate(d, up)

SpecAn == InitAn /\ [][NextAn]_vars

(***************************************************************************)
(* A lerpiter generator drained by next(): util.lerpiter as the effects    *)
(* of src/zpype.py use it, and lerpiter of src/trash/trash1.py.            *)
(***************************************************************************)

\* trash1's timestep is step / TimestepDen
TimestepDen == 4

\* util.lerpiter(a, b, duration) of Explosion and Target; lerpiter(a, b, timestep)
\* of trash1
Generators ==
    { [NoGen EXCEPT !.kind = "util", !.a = 1, !.b = 75, !.duration = 500,
                    !.lerpfunc = "lerp", !.pc = "start"],
      [NoGen EXCEPT !.kind = "util", !.a = 200, !.b = 0, !.duration = 500,
                    !.lerpfunc = "lerp", !.pc = "start"],
      [NoGen EXCEPT !.kind = "util", !.a = 16, !.b = 1, !.duration = 500,
                    !.lerpfunc = "lerp", !.pc = "start"],
      [NoGen EXCEPT !.kind = "trash1", !.a = 0, !.b = 8, !.duration = TimestepDen,
                    !.step = 1, !.lerpfunc = "lerp", !.pc = "start"],
      [NoGen EXCEPT !.kind = "trash1", !.a = 8, !.b = -3, !.duration = TimestepDen,
                    !.step = 3, !.lerpfunc = "lerp", !.pc = "start"] }

\* `if t > 1` after the loop of trash1's lerpiter
Trash1Exceeds(t, one, up) == t > one \/ (t = one /\ up)

\* next() on trash1's lerpiter(a, b, timestep); t is counted in 1 / TimestepDen
Trash1LerpiterNext(g, up) ==
    LET t == IF g.pc = "start" THEN 0 ELSE g.time + g.step
    IN  IF g.pc \in {"final", "done"} THEN Stopped(g)
        ELSE IF LoopTest(t, g.duration, up)
             THEN Yield(g, <<t, g.duration>>, t, "loop")
        ELSE IF Trash1Exceeds(t, g.duration, up)
             THEN Yield(g, <<1, 1>>, t, "final")
        ELSE Stopped(g)

\* one next() on the generator; StopIteration ends the iteration
Drained(r) ==
    /\ gen' = r.gen
    /\ yielded' = IF r.stop THEN yielded
                  ELSE Append(yielded, [value |-> r.value, t |-> r.t, f |-> r.f])
    /\ UNCHANGED <<variant, engine, placing, gameplaystate, tgVars, zVars, shVars, anVars>>

\* next(self.radiusiter) in the update of an effect, in a frame with g.dt = d
EffectNext(d, up) ==
    /\ variant = "lerpiter" /\ gen.kind = "util" /\ gen.pc # "done"
    /\ up => gen.pc = "loop" /\ gen.time + d = gen.duration
    /\ Drained(LerpiterNext(gen, d, up))

\* next() on trash1's lerpiter
Trash1Next(up) ==
    /\ variant = "lerpiter" /\ gen.kind = "trash1" /\ gen.pc # "done"
    /\ up => gen.pc = "loop" /\ gen.time + gen.step = gen.duration
    /\ Drained(Trash1LerpiterNext(gen, up))

InitLp ==
    /\ variant = "lerpiter"
    /\ IdleTG /\ IdleZ /\ IdleSh /\ IdleAn /\ IdleEn /\ IdlePl /\ IdleGp
    /\ gen \in Generators
    /\ yielded = <<>>

NextLp ==
    \/ \E d \in FrameDts, up \in BOOLEAN : EffectNext(d, up)
    \/ \E up \in BOOLEAN : Trash1Next(up)

SpecLp == InitLp /\ [][NextLp]_vars

(***************************************************************************)
(* The placement of new enemies, variant "placement":                      *)
(*   "trash1"    : the `while True` loop of GameplayState.spawn             *)
(*   "trash3"    : the `while True` loop of Shooter.update                  *)
(*   "framework" : randomresolve, called for one rect after the other       *)
(* The rectangle positions are drawn from (`inside`) is a strip of          *)
(* StripCells cells, one box high; every box is BoxCells wide, so a rect is *)
(* its left edge x.  placing is the record                                  *)
(*   placer : which of the three loops runs                                 *)
(*   others : the left edges of the rects a new rect must not collide with  *)
(*   box    : the left edge of the rect being placed                        *)
(*   left   : the rects still to be placed                                  *)
(*   pc     : "loop" inside the loop, "done" when every rect is placed      *)
(***************************************************************************)
\* Width of the strip positions are drawn from, in cells.
StripCells == 4

\* Width of an enemy's bounding box, in cells.
BoxCells == 2

\* Rects placed one after the other in one run.
MaxPlaced == 3

Placers == {"trash1", "trash3", "framework"}

\* pg.Rect.colliderect for two boxes of the strip: they overlap in at least one cell
Colliderect(x, o) == x < o + BoxCells /\ o < x + BoxCells

\* any(rect.colliderect(r) for r in rects)
Collides(x, rects) == \E o \in rects : Colliderect(x, o)

\* the left edges one sample can give: randomrect keeps the box inside
\* (trash1), Shooter.update draws from 0 .. 800 - width (trash3), randomxy
\* draws from inside.left .. inside.right (framework)
Samples(placer) ==
    IF placer = "framework" THEN 0..StripCells ELSE 0..(StripCells - BoxCells)

\* the rect is accepted where it is: it joins the rects the next one must avoid
Accepted(x, start) ==
    [placing EXCEPT !.others = @ \cup {x}, !.box = IF placing.left = 1 THEN x ELSE start,
                    !.left = @ - 1, !.pc = IF placing.left = 1 THEN "done" ELSE "loop"]

\* one pass of the `while True` loop of GameplayState.spawn (trash1) or of
\* Shooter.update (trash3, entered only if nwords > 0): the position x is sampled
\* and accepted if it collides with no enemy
SampleThenTest(x) ==
    /\ variant = "placement" /\ placing.pc = "loop"
    /\ placing.placer \in {"trash1", "trash3"}
    /\ x \in Samples(placing.placer)
    /\ placing' = IF (placing.placer = "trash3" /\ placing.others = {})
                     \/ ~Collides(x, placing.others)
                  THEN Accepted(x, x)
                  ELSE [placing EXCEPT !.box = x]
    /\ UNCHANGED <<variant, engine, gameplaystate, tgVars, zVars, shVars, anVars, lpVars>>

\* one pass of the while loop of randomresolve: the rect is tested where it is
\* and moved to the sampled position x if it collides; start is where the rect of
\* the next call lies
TestThenSample(x, start) ==
    /\ variant = "placement" /\ placing.pc = "loop"
    /\ placing.placer = "framework"
    /\ x \in Samples(placing.placer) /\ start \in Samples(placing.placer)
    /\ placing' = IF Collides(placing.box, placing.others)
                  THEN [placing EXCEPT !.box = x]
                  ELSE Accepted(placing.box, start)
    /\ UNCHANGED <<variant, engine, gameplaystate, tgVars, zVars, shVars, anVars, lpVars>>

InitPl ==
    /\ variant = "placement"
    /\ IdleTG /\ IdleZ /\ IdleSh /\ IdleAn /\ IdleLp /\ IdleEn /\ IdleGp
    /\ \E placer \in Placers : \E start \in Samples(placer) :
          placing = [placer |-> placer, others |-> {}, box |-> start, left |-> MaxPlaced,
                     pc |-> "loop"]

NextPl ==
    \/ \E x \in 0..StripCells : SampleThenTest(x)
    \/ \E x, start \in 0..StripCells : TestThenSample(x, start)

SpecPl == InitPl /\ [][NextPl]_vars

(***************************************************************************)
(* trash1.GameplayState and its waves, variant "waves".  gameplaystate is   *)
(* the record                                                              *)
(*   methodstack    : the names of the methods on self.methodstack          *)
(*   wave           : self.wave                                            *)
(*   wavetextsprite : whether self.wavetextsprite is not None               *)
(*   enemygroups    : self.enemygroups, each group a record                 *)
(*        letters    : its LetterSprites alive                              *)
(*        known      : whether its ship is a key of self.ship2explosions    *)
(*        explosions : the live Explosions of self.ship2explosions[ship]    *)
(*   explosions     : the live Explosions of g.group that belong to no      *)
(*                    group of enemygroups                                  *)
(***************************************************************************)
\* Value of self.wave after which no further wave is started.
MaxWave == 3

\* Words of one wave (g.game.spawn(5) in the source).
WaveGroups == 2

\* Letters of a spawned word.
WaveLetters == 2

\* EnemyGroup(word)
NewEnemyGroup == [letters |-> WaveLetters, known |-> FALSE, explosions |-> 0]

\* playing, lines 870-877: no letter sprite left alive and no explosion of the ship
\* playing
Finished(grp) == grp.letters = 0 /\ grp.known /\ grp.explosions = 0

\* the groups of self.enemygroups that stay (keep) or are removed, in their order
RECURSIVE Select(_, _)
Select(egs, keep) ==
    IF egs = <<>> THEN <<>>
    ELSE (IF Finished(Head(egs))
          THEN IF keep THEN <<>> ELSE <<Head(egs)>>
          ELSE IF keep THEN <<Head(egs)>> ELSE <<>>) \o Select(Tail(egs), keep)

\* the live Explosion sprites of g.group
RECURSIVE LiveExplosions(_)
LiveExplosions(gp) ==
    IF gp.enemygroups = <<>> THEN gp.explosions
    ELSE Head(gp.enemygroups).explosions
         + LiveExplosions([gp EXCEPT !.enemygroups = Tail(@)])

\* the condition of lines 892-894 with a test that leaves the explosions out
StartsWaveEarly(gp) == gp.enemygroups = <<>>

\* playing, lines 892-894: no enemy group and no live Explosion in g.group
StartsWave(gp) == gp.enemygroups = <<>> /\ LiveExplosions(gp) = 0

\* GameplayState.playing: the finished groups are removed, each leaving one big
\* Explosion in g.group; then the next wave is started if nothing is left
GameplayPlaying(gp) ==
    LET removed == [gp EXCEPT !.enemygroups = Select(@, TRUE),
                              !.explosions = @ + Len(Select(gp.enemygroups, FALSE))]
    IN  IF StartsWave(removed)
        THEN [removed EXCEPT !.wave = @ + 1,
                             !.methodstack = @ \o <<"spawn", "intro_wave">>]
        ELSE removed

\* self.methodstack.pop()
MethodPop(gp) == [gp EXCEPT !.methodstack = SubSeq(@, 1, Len(@) - 1)]

\* GameplayState.update: the method on top of self.methodstack is called.
\* ends: whether next(self.wavelerpsiter) raises StopIteration in this frame
GameplayUpdate(ends) ==
    /\ variant = "waves"
    /\ gameplaystate.methodstack # <<>>
    /\ LET gp == gameplaystate
           top == gp.methodstack[Len(gp.methodstack)]
       IN  /\ top = "playing" /\ StartsWave(GameplayPlaying(gp)) => gp.wave < MaxWave
           /\ gameplaystate' =
                CASE top = "intro" -> MethodPop(gp)
                  [] top = "intro_wave" ->
                       IF gp.wavetextsprite
                       THEN [MethodPop(gp) EXCEPT !.wavetextsprite = FALSE]
                       ELSE [gp EXCEPT !.wavetextsprite = TRUE,
                                       !.methodstack = Append(@, "intro_wave_update")]
                  [] top = "intro_wave_update" -> IF ends THEN MethodPop(gp) ELSE gp
                  [] top = "spawn" ->
                       MethodPop([gp EXCEPT !.enemygroups =
                                    @ \o [i \in 1..WaveGroups |-> NewEnemyGroup]])
                  [] OTHER -> GameplayPlaying(gp)
    /\ UNCHANGED <<variant, engine, placing, tgVars, zVars, shVars, anVars, lpVars>>

\* GameplayState.on_laser_killed for a laser aimed at the ship of group i: the
\* letter sprite is killed and an Explosion is added
OnLaserKilled(i) ==
    /\ variant = "waves"
    /\ i \in DOMAIN gameplaystate.enemygroups
    /\ gameplaystate.enemygroups[i].letters > 0
    /\ gameplaystate' = [gameplaystate EXCEPT !.enemygroups[i] =
                            [@ EXCEPT !.letters = @ - 1, !.known = TRUE,
                                      !.explosions = @ + 1]]
    /\ UNCHANGED <<variant, engine, placing, tgVars, zVars, shVars, anVars, lpVars>>

\* Explosion.update at the end of its animation: the sprite kills itself.
\* i: the group of the explosion's ship, 0 for an explosion of no group
ExplosionEnds(i) ==
    /\ variant = "waves"
    /\ IF i = 0
       THEN /\ gameplaystate.explosions > 0
            /\ gameplaystate' = [gameplaystate EXCEPT !.explosions = @ - 1]
       ELSE /\ i \in DOMAIN gameplaystate.enemygroups
            /\ gameplaystate.enemygroups[i].explosions > 0
            /\ gameplaystate' = [gameplaystate EXCEPT !.enemygroups[i].explosions = @ - 1]
    /\ UNCHANGED <<variant, engine, placing, tgVars, zVars, shVars, anVars, lpVars>>

\* GameplayState.__init__ and GameplayState.enter
InitGp ==
    /\ variant = "waves"
    /\ IdleTG /\ IdleZ /\ IdleSh /\ IdleAn /\ IdleLp /\ IdleEn /\ IdlePl
    /\ gameplaystate = [methodstack |-> <<"playing", "spawn", "intro_wave", "intro">>,
                        wave |-> 1, wavetextsprite |-> FALSE, enemygroups |-> <<>>,
                        explosions |-> 0]

NextGp ==
    \/ \E ends \in BOOLEAN : GameplayUpdate(ends)
    \/ \E i \in 1..WaveGroups : OnLaserKilled(i)
    \/ \E i \in 0..WaveGroups : ExplosionEnds(i)

SpecGp == InitGp /\ [][NextGp]_vars

(***************************************************************************)
(* zpype.Engine, zpype.StateStack and the three State classes              *)
(* (src/zpype.py), variant "engine".  One wave is one enemy ship whose      *)
(* word has WordLen letters, all of them the letter "a"; the words          *)
(* themselves are the subject of variant "zpype".  The engine with all it   *)
(* reaches through g is the record e:                                       *)
(*   stepper, do_step, buffered_events, running : Engine's fields           *)
(*   posted     : events put on pygame's queue by pg.event.post             *)
(*   statestack : g.statestack, entries [cls, brain, enabled]; brain holds  *)
(*                the names of the phase methods, enabled is the state of   *)
(*                the state's EventHandlerGroup                             *)
(*   sprites    : g.sprites, a set of [kind, n, time, pc, active]           *)
(*   pdriver, qdriver : g.player.sprite.rect.driver.iterable and            *)
(*                MainmenuState.quit.rect.driver.iterable                   *)
(*   appends    : number of StateStack.append calls so far                  *)
(*   log        : the calls made during the current Engine.step             *)
(***************************************************************************)

\* StateStack.append calls in one run
MaxAppends == 3

\* Events the engine keeps buffered while stepping is held
MaxBuffered == 2

\* the word Game.spawn returns
ShipWord == <<"a", "a">>

WordLen == Len(ShipWord)

\* g.dt of the frames of this variant
EngineDts == {500}

\* the events pg.event.get() can return: five KEYDOWN events and QUIT
Events == {"ESCAPE", "RETURN", "TAB", "SHIFT_TAB", "a", "QUIT"}

\* TYPE2NAME[event.type]
EventName(event) == IF event = "QUIT" THEN "QUIT" ELSE "KEYDOWN"

Sprite(kind, n) == [kind |-> kind, n |-> n, time |-> 0, pc |-> "start", active |-> TRUE]

\* isinstance(sprite, (Enemy, Effect))
EnemyOrEffect(s) == s.kind \in {"ship", "explosion", "target"}

\* isinstance(sprite, Enemy)
IsEnemy(s) == s.kind = "ship"

\* the sprites a MainmenuState creates and adds to g.sprites, with g.player
MenuSprites == {Sprite("player", 0), Sprite("logo", 0), Sprite("play", 0), Sprite("quit", 0)}

\* GamePauseState.pause_group
PauseSprites == {Sprite("resume", 0), Sprite("pausequit", 0)}

\* the animations handed to Driver.run, as chains of util.lerpsiter generators
Running(parts) == [live |-> TRUE, parts |-> parts]

\* MainmenuState.intro_init: the player flies in (two sinlerp legs of one second)
PlayerIntro ==
    Running(<<Lerpsiter(<<4, -2>>, <<4, 12>>, 1000, "sinlerp"),
              Lerpsiter(<<4, 12>>, <<4, 6>>, 1000, "sinlerp")>>)

\* MainmenuState.intro_init: "quit" slides in after a delay
QuitIntro ==
    Running(<<Lerpsiter(<<0, 4>>, <<0, 4>>, 250, "lerp"),
              Lerpsiter(<<0, 4>>, <<7, 4>>, 1000, "lerp")>>)

\* MainmenuState.outro_init: the player slides down
PlayerMenuOutro == Running(<<Lerpsiter(<<4, 6>>, <<4, 9>>, 1000, "lerp")>>)

\* MainmenuState.outro_init: "quit" holds, then slides off
QuitOutro ==
    Running(<<Lerpsiter(<<7, 4>>, <<7, 4>>, 250, "lerp"),
              Lerpsiter(<<7, 4>>, <<14, 4>>, 1000, "lerp")>>)

\* GameState.outro_init: the player flies off
PlayerGameOutro ==
    Running(<<Lerpsiter(<<4, 6>>, <<4, 12>>, 125, "sinlerp"),
              Lerpsiter(<<4, 0>>, <<4, -2>>, 1000, "sinlerp")>>)

\* the sprite objects of a group, whatever their fields hold
Members(ss) == {<<s.kind, s.n>> : s \in ss}

NewState(cls) == [cls |-> cls, brain |-> <<>>, enabled |-> TRUE, typing |-> FALSE]

Classes(stack) == [i \in DOMAIN stack |-> stack[i].cls]

Enableds(stack) == [i \in DOMAIN stack |-> stack[i].enabled]

\* one entry of the call log: the method called, the class of the object it was
\* called on, the event passed ("" for none), the classes on g.statestack, the
\* state of their handlers and the members of g.sprites at the time of the call
\* and, for a call Engine makes on a state, the position of that state on the stack
LoggedAt(e, op, cls, event, pos) ==
    [e EXCEPT !.log = Append(@, [op |-> op, cls |-> cls, event |-> event, pos |-> pos,
                                 stack |-> Classes(e.statestack),
                                 enabled |-> Enableds(e.statestack),
                                 members |-> Members(e.sprites)])]

Logged(e, op, cls, event) == LoggedAt(e, op, cls, event, 0)

\* the state object a method of a state runs on: the one on top of the stack
Top(e) == e.statestack[Len(e.statestack)]

\* the position of the bottom of the stack
CurrentBottom(stack) == 1

\* the position of g.statestack[-1], the state Engine.handle_event and Engine.step
\* call
Current(stack) == Len(stack)

\* a change of the state on top of the stack
WithTop(e, state) == [e EXCEPT !.statestack[Len(e.statestack)] = state]

\* brain.append(phase) on the top state
BrainAppend(e, phase) == WithTop(e, [Top(e) EXCEPT !.brain = Append(@, phase)])

\* brain.pop() on the top state
BrainPop(e) == WithTop(e, [Top(e) EXCEPT !.brain = SubSeq(@, 1, Len(@) - 1)])

\* eventhandlers.enable() / eventhandlers.disable() on the top state
SetEnabled(e, flag) == WithTop(e, [Top(e) EXCEPT !.enabled = flag])

\* MainmenuState.intro_init
MainmenuIntroInit(e) ==
    BrainAppend([e EXCEPT !.pdriver = PlayerIntro, !.qdriver = QuitIntro], "intro")

\* an outro_init that leaves the handlers of the menu enabled
MainmenuOutroInitEnabled(e) ==
    BrainAppend([e EXCEPT !.pdriver = PlayerMenuOutro, !.qdriver = QuitOutro], "outro")

\* MainmenuState.outro_init
MainmenuOutroInit(e) ==
    BrainAppend(SetEnabled([e EXCEPT !.pdriver = PlayerMenuOutro, !.qdriver = QuitOutro],
                           FALSE), "outro")

\* GameState.intro_init
GameIntroInit(e) == BrainAppend(SetEnabled(e, FALSE), "intro")

\* GameState.gameplay_init
GameplayInit(e) == BrainAppend(SetEnabled(e, TRUE), "gameplay")

\* GameState.outro_init
GameOutroInit(e) ==
    BrainAppend(SetEnabled([e EXCEPT !.pdriver = PlayerGameOutro], FALSE), "outro")

\* sprite.active = flag for every Enemy and Effect sprite of g.sprites
SetActive(ss, flag) ==
    {IF EnemyOrEffect(s) THEN [s EXCEPT !.active = flag] ELSE s : s \in ss}

\* State.enter and State.exit: saved_sprites is never filled, so g.sprites stays as it is
StateEnter(e) == e
StateExit(e) == e

\* enter() of the state on top of the stack
Enter(e) ==
    LET cls == Top(e).cls
        l == Logged(e, "enter", cls, "")
    IN  CASE cls = "MainmenuState" -> MainmenuIntroInit(SetEnabled(StateEnter(l), TRUE))
          [] cls = "GameState" -> SetEnabled(GameIntroInit(StateEnter(l)), TRUE)
          [] cls = "GamePauseState" ->
                [l EXCEPT !.sprites = SetActive(@, FALSE) \cup PauseSprites]

\* the part of exit() that acts outside the state object
ExitGlobal(e, cls) ==
    CASE cls = "GamePauseState" ->
            [e EXCEPT !.sprites = SetActive(@ \ PauseSprites, TRUE)]
      [] OTHER -> StateExit(e)

\* exit() of the state on top of the stack
ExitTop(e) ==
    LET cls == Top(e).cls
        l == ExitGlobal(Logged(e, "exit", cls, ""), cls)
    IN  IF cls = "GameState" THEN SetEnabled(l, FALSE) ELSE l

\* the constructors: MainmenuState() and GameState() add g.player (and the menu's
\* sprites) to g.sprites, GamePauseState() only builds its pause_group
Construct(e, cls) ==
    CASE cls = "MainmenuState" -> [e EXCEPT !.sprites = @ \cup MenuSprites]
      [] cls = "GameState" -> [e EXCEPT !.sprites = @ \cup {Sprite("player", 0)}]
      [] OTHER -> e

\* StateStack.append(state) with the new state placed before the old top's exit()
StackAppendPlacedFirst(e, cls) ==
    LET called == Logged(e, "append", cls, "")
        placed == [called EXCEPT !.statestack = Append(@, NewState(cls)),
                                 !.appends = @ + 1]
        exited == IF e.statestack # <<>>
                  THEN Logged(placed, "exit", Top(e).cls, "")
                  ELSE placed
    IN  Enter(exited)

\* StateStack.append(state), of zpype.py and of trash1.py alike
StackAppend(e, cls) ==
    LET called == Logged(e, "append", cls, "")
        exited == IF e.statestack # <<>> THEN ExitTop(called) ELSE called
        placed == [exited EXCEPT !.statestack = Append(@, NewState(cls)),
                                 !.appends = @ + 1]
    IN  Enter(placed)

\* a pop that takes the state from the bottom of the stack, as list.pop(0) does
StackPopBottom(e) ==
    LET state == Top(e)
        called == Logged(e, "pop", state.cls, "")
        removed == [called EXCEPT !.statestack = Tail(@)]
        exited == ExitGlobal(Logged(removed, "exit", state.cls, ""), state.cls)
    IN  IF exited.statestack # <<>> THEN Enter(exited) ELSE exited

\* StateStack.pop(), of zpype.py and of trash1.py alike
StackPop(e) ==
    LET state == Top(e)
        called == Logged(e, "pop", state.cls, "")
        removed == [called EXCEPT !.statestack = SubSeq(@, 1, Len(@) - 1)]
        exited == ExitGlobal(Logged(removed, "exit", state.cls, ""), state.cls)
    IN  IF exited.statestack # <<>> THEN Enter(exited) ELSE exited

\* the sprites of g.sprites of one kind
OfKind(ss, kind) == {s \in ss : s.kind = kind}

\* GameState.shoot_at and GameState.kill_letter for the word of the one ship: a
\* PolygonTarget when the word was not being typed at, a Bullet, and the first
\* LetterSprite is killed; without an EnemyGroup carrying the word nothing happens
EngineKillLetter(e) ==
    LET left == OfKind(e.sprites, "letter")
        first == CHOOSE s \in left : \A o \in left : s.n <= o.n
        target == IF Top(e).typing THEN {} ELSE {Sprite("target", 0)}
    IN  IF OfKind(e.sprites, "ship") = {} \/ left = {}
        THEN e
        ELSE [e EXCEPT !.sprites = (@ \ {first}) \cup target \cup {Sprite("bullet", first.n)}]

\* GameState.do_typed with Game.find and Game.hit_word: e.active_word is the number of
\* letters left of the one word of g.game.active_words
EngineDoTyped(e, letter) ==
    IF letter = "a" /\ e.active_word > 0
    THEN LET k == EngineKillLetter(e)
         IN  WithTop([k EXCEPT !.active_word = @ - 1], [Top(k) EXCEPT !.typing = e.active_word > 1])
    ELSE e

\* Engine.on_KEYDOWN and Engine.on_QUIT
EngineHandler(e, event) ==
    LET l == Logged(e, "handler", "Engine", event)
    IN  CASE event = "SHIFT_TAB" ->
                [l EXCEPT !.stepper = ~e.stepper,
                          !.do_step = IF e.stepper THEN TRUE ELSE e.do_step]
          [] event = "TAB" -> [l EXCEPT !.do_step = TRUE]
          [] event = "QUIT" -> [l EXCEPT !.running = FALSE]
          [] OTHER -> l

\* on_KEYDOWN of MainmenuState, GameState and GamePauseState, called on the state
\* on top of the stack
StateHandler(e, event) ==
    LET pos == Current(e.statestack)
        cls == e.statestack[pos].cls
        l == LoggedAt(e, "handler", cls, event, pos)
    IN  CASE cls = "MainmenuState" /\ event = "ESCAPE" ->
                [l EXCEPT !.posted = Append(@, "QUIT")]
          [] cls = "MainmenuState" /\ event = "RETURN" -> MainmenuOutroInit(l)
          [] cls = "GameState" /\ event = "ESCAPE" -> StackAppend(l, "GamePauseState")
          [] cls = "GameState" /\ event # "ESCAPE" -> EngineDoTyped(l, event)
          [] cls = "GamePauseState" /\ event = "ESCAPE" -> StackPop(l)
          [] cls = "GamePauseState" /\ event = "RETURN" -> GameOutroInit(StackPop(l))
          [] OTHER -> l

\* EventHandlerGroup.from_instance: the on_* methods a class defines
Defines(cls, name) ==
    IF cls = "Engine" THEN name \in {"KEYDOWN", "QUIT"} ELSE name = "KEYDOWN"

\* the state of Engine.eventhandlers, which nothing disables
EngineEnabled == TRUE

\* Engine.handle_event asking the state before the engine
HandleEventStateFirst(e, event) ==
    LET name == EventName(event)
        state == e.statestack[Current(e.statestack)]
        first == IF e.statestack # <<>> /\ Defines(state.cls, name) /\ state.enabled
                 THEN StateHandler(e, event)
                 ELSE e
    IN  IF Defines("Engine", name) /\ EngineEnabled THEN EngineHandler(first, event) ELSE first

\* Engine.handle_event
HandleEvent(e, event) ==
    LET name == EventName(event)
        own == IF Defines("Engine", name) /\ EngineEnabled THEN EngineHandler(e, event) ELSE e
        state == own.statestack[Current(own.statestack)]
    IN  IF own.statestack # <<>> /\ Defines(state.cls, name) /\ state.enabled
        THEN StateHandler(own, event)
        ELSE own

\* for event in events: self.handle_event(event)
RECURSIVE HandleEvents(_, _)
HandleEvents(e, events) ==
    IF events = <<>> THEN e ELSE HandleEvents(HandleEvent(e, Head(events)), Tail(events))

\* the value of Driver.iterable after one more Rect.update
DriverStep(drv, d) ==
    IF ~drv.live THEN drv
    ELSE LET r == ChainNext(drv.parts, d, FALSE)
         IN  IF r.stop THEN NoneIterable ELSE Running(r.parts)

\* the generator of an Explosion or PolygonTarget (duration .5)
EffectGen(s) ==
    [a |-> 1, b |-> 75, duration |-> 500, lerpfunc |-> "lerp", time |-> s.time, pc |-> s.pc]

\* Explosion.update and PolygonTarget.update: the sprite after the update, or none
EffectUpdate(s, d) ==
    LET r == LerpiterNext(EffectGen(s), d, FALSE)
    IN  IF r.stop THEN {} ELSE {[s EXCEPT !.time = r.gen.time, !.pc = r.gen.pc]}

\* Bullet.update for the bullets of one frame: those that land take one health each
\* from the ship, kill it at zero and leave an Explosion
BulletsLand(ss, d) ==
    LET bullets == OfKind(ss, "bullet")
        landed == {b \in bullets : b.time + d >= BulletDuration}
        flying == {[b EXCEPT !.time = @ + d] : b \in bullets \ landed}
        ships == {[s EXCEPT !.n = @ - Cardinality(landed)] : s \in OfKind(ss, "ship")}
    IN  flying \cup {s \in ships : s.n # 0 \/ landed = {}}
               \cup {Sprite("explosion", b.n) : b \in landed}

\* Group.update: the update of every active sprite of g.sprites
EngineSpritesUpdate(e, d) ==
    LET effects == OfKind(e.sprites, "explosion") \cup OfKind(e.sprites, "target")
        others == e.sprites \ (effects \cup OfKind(e.sprites, "bullet") \cup OfKind(e.sprites, "ship"))
        updated == UNION {IF s.active THEN EffectUpdate(s, d) ELSE {s} : s \in effects}
    IN  [e EXCEPT !.sprites = others \cup updated \cup BulletsLand(e.sprites, d),
                  !.pdriver = IF OfKind(e.sprites, "player") # {} THEN DriverStep(@, d) ELSE @,
                  !.qdriver = IF OfKind(e.sprites, "quit") # {} THEN DriverStep(@, d) ELSE @]

\* GameState.do_spawn with maxspawn one: Game.spawnmax refills an empty
\* active_words, then one EnemyGroup (ship and letters) per active word
EngineDoSpawn(e) ==
    LET word == IF e.active_word = 0 THEN WordLen ELSE e.active_word
    IN  [e EXCEPT !.active_word = word,
                  !.sprites = @ \cup {Sprite("ship", word)}
                                \cup {Sprite("letter", WordLen - word + i) : i \in 1..word}]

\* State.update of the state on top of the stack: the last method of its brain
StateUpdate(e) ==
    LET pos == Current(e.statestack)
        state == e.statestack[pos]
        l == LoggedAt(e, "update", state.cls, "", pos)
        phase == IF state.brain = <<>> THEN "none" ELSE state.brain[Len(state.brain)]
    IN  CASE state.cls = "MainmenuState" /\ phase = "intro" ->
                IF e.pdriver.live THEN l ELSE BrainPop(l)
          [] state.cls = "MainmenuState" /\ phase = "outro" ->
                IF e.qdriver.live THEN l
                ELSE StackAppend(Construct(BrainPop(l), "GameState"), "GameState")
          [] state.cls = "GameState" /\ phase = "intro" ->
                IF e.pdriver.live THEN l ELSE GameplayInit(BrainPop(l))
          [] state.cls = "GameState" /\ phase = "gameplay" ->
                IF \E s \in e.sprites : IsEnemy(s) THEN l ELSE EngineDoSpawn(l)
          [] state.cls = "GameState" /\ phase = "outro" ->
                IF e.pdriver.live THEN l
                ELSE LET popped == BrainPop(l)
                     IN  StackPop([popped EXCEPT !.sprites =
                             {s \in @ : s.kind \notin {"ship", "letter"}}])
          [] OTHER -> l

\* events.insert(0, self.buffered_events.popleft()) until the buffer is empty
RECURSIVE Release(_, _)
Release(buffered, events) ==
    IF buffered = <<>> THEN events ELSE Release(Tail(buffered), <<Head(buffered)>> \o events)

\* Engine.step with the events pg.event.get() returns and g.dt = d
Step(e, got, d) ==
    LET start == [e EXCEPT !.log = <<>>, !.posted = <<>>]
        events == IF e.do_step THEN Release(e.buffered_events, got) ELSE got
        taken == [start EXCEPT !.buffered_events = IF e.do_step THEN <<>> ELSE @ \o got]
        handled == HandleEvents(taken, events)
        updated == IF handled.do_step /\ handled.statestack # <<>>
                   THEN EngineSpritesUpdate(StateUpdate(handled), d)
                   ELSE handled
    IN  [updated EXCEPT !.do_step = IF updated.stepper THEN FALSE ELSE @,
                        !.polled = got, !.handled = events,
                        !.stepped = handled.do_step /\ handled.statestack # <<>>]
\* the engine before main() pushes the first state; Engine(stepper)
NewEngine(flag) ==
    [stepper |-> flag, do_step |-> ~flag, buffered_events |-> <<>>, running |-> TRUE,
     posted |-> <<>>, statestack |-> <<>>, sprites |-> {},
     pdriver |-> NoneIterable, qdriver |-> NoneIterable, active_word |-> 0,
     appends |-> 0, log |-> <<>>, polled |-> <<>>, handled |-> <<>>, stepped |-> FALSE]

\* what pg.event.get() returns in one frame: nothing or one event
Polls == {<<>>} \cup {<<event>> : event \in Events}

\* the engine between two frames: the record of the calls of the last frame is dropped
Between(e) == [e EXCEPT !.log = <<>>, !.polled = <<>>, !.handled = <<>>, !.stepped = FALSE]

\* main(): g.statestack.append(MainmenuState()), then engine.run()
InitEn ==
    /\ variant = "engine"
    /\ IdleTG /\ IdleZ /\ IdleSh /\ IdleAn /\ IdleLp /\ IdlePl /\ IdleGp
    /\ \E flag \in BOOLEAN :
          engine = Between(StackAppend(Construct(NewEngine(flag), "MainmenuState"),
                                        "MainmenuState"))

\* one pass of the loop of Engine.run
EngineStep(got, d) ==
    /\ variant = "engine"
    /\ engine.running
    /\ \E r \in {Step(engine, engine.posted \o got, d)} :
           /\ r.appends <= MaxAppends
           /\ Len(r.buffered_events) <= MaxBuffered
           /\ engine' = Between(r)
    /\ UNCHANGED <<variant, placing, gameplaystate, tgVars, zVars, shVars, anVars, lpVars>>

NextEn == \E got \in Polls, d \in EngineDts : EngineStep(got, d)

SpecEn == InitEn /\ [][NextEn]_vars

Init == InitTG \/ InitZ \/ InitBu \/ InitSh \/ InitAn \/ InitLp \/ InitEn \/ InitPl \/ InitGp
Next == NextTG \/ NextZ \/ NextBu \/ NextSh \/ NextAn \/ NextLp \/ NextEn \/ NextPl \/ NextGp
Spec == Init /\ [][Next]_vars

(***************************************************************************)
(* Properties                                                              *)
(***************************************************************************)
\* the lock of TypingGame refers to a word that still has text
TGLocked == lock # 0 /\ text[lock] # <<>>

\* list b is list a with the first entry equal to word stripped of its head, the entry
\* being removed when nothing is left of it
StrippedAt(a, b, i) ==
    IF Len(a[i]) = 1 THEN b = RemoveAt(a, i) ELSE b = [a EXCEPT ![i] = Tail(a[i])]

NoSharedHead(ws) ==
    \A i, j \in DOMAIN ws :
        i # j /\ ws[i] # <<>> /\ ws[j] # <<>> => Head(ws[i]) # Head(ws[j])

NoDuplicates(s) == \A i, j \in DOMAIN s : i # j => s[i] # s[j]

\* the state in which the loop of Game.spawnmax has just ended
AfterSpawnmax == variant = "zpype" /\ zPc = "spawnmax" /\ Len(active_words) >= game.maxspawn

\* C1: every word's remaining text is a suffix of its original text (Word.text of
\* Word.initial in TypingGame; every entry of Game.active_words of the text it was
\* admitted with), so it is never longer than the original.
C1_RemainingIsSuffix ==
    /\ variant = "trash1" =>
         \A w \in DOMAIN vocabulary : IsSuffix(text[w], vocabulary[w])
    /\ variant = "zpype" =>
         /\ Len(admitted) = Len(active_words)
         /\ \A i \in DOMAIN active_words : IsSuffix(active_words[i], admitted[i])

C1_Witness ==
    /\ variant = "zpype"
    /\ \E i \in DOMAIN active_words :
         Len(admitted[i]) = 4 /\ Len(active_words[i]) = 1

C3_NoSharedFirstLetter ==
    /\ AfterSpawnmax => NoSharedHead(active_words)
    /\ variant = "trash1" /\ tgLast = <<"spawn">> =>
         \A i, j \in DOMAIN current :
             current[i] # current[j] /\ text[current[i]] # <<>> /\ text[current[j]] # <<>>
                 => Head(text[current[i]]) # Head(text[current[j]])

\* C4: with no word locked, a keystroke c locks (and hits) the first active word, in
\* list order, whose head is c; when no active word's head is c no lock is taken and no
\* word changes.
C4_LocksFirstMatch ==
    [][ /\ \A c \in Letters :
             Shoot(c) /\ ~TGLocked =>
                 LET ok == {i \in DOMAIN current :
                              text[current[i]] # <<>> /\ Head(text[current[i]]) = c}
                 IN IF ok = {}
                    THEN lock' = 0 /\ text' = text
                    ELSE /\ lock' = current[Min(ok)]
                         /\ text' = [text EXCEPT ![current[Min(ok)]] = Tail(@)]
        /\ \A c \in Letters :
             Typed(c) /\ typing_at = <<>> =>
                 LET ok == {i \in DOMAIN active_words : Head(active_words[i]) = c}
                 IN IF ok = {}
                    THEN UNCHANGED <<active_words, typing_at, groups>>
                    ELSE /\ StrippedAt(active_words, active_words', Min(ok))
                         /\ typing_at' = IF Len(active_words[Min(ok)]) = 1 THEN <<>>
                                         ELSE <<Tail(active_words[Min(ok)])>>
      ]_vars

\* two active words have the head that was typed, and the first of them was locked
C4_Witness ==
    /\ variant = "trash1"
    /\ Len(current) >= 2
    /\ tgLast # <<>> /\ tgLast[1] = "shoot"
    /\ lock = current[1]
    /\ text[current[1]] # <<>>
    /\ text[current[2]] # <<>>
    /\ Len(text[current[1]]) < Len(vocabulary[current[1]])
    /\ Len(text[current[2]]) < Len(vocabulary[current[2]])
    /\ text[current[2]] = <<Head(vocabulary[current[1]])>> \o text[current[1]]

\* C5: every keystroke that equals the head of the locked word is a HIT; it is also a
\* KILL exactly when it removes the word's last character, and then the lock is cleared
\* at once (Shooter: hits + 1, kills + 1 only then, locked = None and the sprite killed;
\* GameState: typing_at becomes None and the word leaves active_words).  So the n
\* characters of a locked word give n HITs of which exactly the last is a KILL.
C5_HitsThenKill ==
    [][ /\ \A c \in Letters : \A bynearest \in Orderings(group) :
             Attack(c, bynearest) /\ locked # 0 /\ Head(letters[locked]) = c =>
                 /\ hits' = hits + 1 /\ misses' = misses
                 /\ letters' = [letters EXCEPT ![locked] = Tail(@)]
                 /\ IF Len(letters[locked]) = 1
                    THEN kills' = kills + 1 /\ locked' = 0 /\ group' = group \ {locked}
                    ELSE kills' = kills /\ locked' = locked /\ group' = group
        /\ \A c \in Letters :
             Typed(c) /\ typing_at # <<>> /\ Head(typing_at[1]) = c =>
                 IF Len(typing_at[1]) = 1
                 THEN /\ typing_at' = <<>>
                      /\ Len(active_words') = Len(active_words) - 1
                 ELSE /\ typing_at' = <<Tail(typing_at[1])>>
                      /\ Len(active_words') = Len(active_words)
                      /\ typing_at'[1] \in Range(active_words')
      ]_vars

\* "dog" was locked and typed: three hits, the last one a kill, no lock left
C5_Witness ==
    /\ variant = "trash3"
    /\ total = 3 /\ hits = 3 /\ kills = 1 /\ misses = 0
    /\ locked = 0
    /\ \E w \in DOMAIN letters : letters[w] = <<>> /\ w \notin group

\* C6: with a word locked, a keystroke that differs from its head is one MISS and no
\* HIT and leaves the locked word as it is (Shooter keeps the lock and counts the miss;
\* GameState changes nothing).
C6_MissKeepsWord ==
    [][ /\ \A c \in Letters : \A bynearest \in Orderings(group) :
             Attack(c, bynearest) /\ locked # 0 /\ Head(letters[locked]) # c =>
                 /\ misses' = misses + 1
                 /\ UNCHANGED <<hits, kills, locked, letters, group>>
        /\ \A c \in Letters :
             Typed(c) /\ typing_at # <<>> /\ Head(typing_at[1]) # c =>
                 UNCHANGED <<active_words, typing_at, groups>>
      ]_vars

\* 'd' then 'x' on "dog": one hit, one miss, the locked word is "og"
C6_Witness ==
    /\ variant = "trash3"
    /\ total = 2 /\ hits = 1 /\ misses = 1 /\ kills = 0
    /\ locked # 0
    /\ letters[locked] = <<"o", "g">>

\* C7: TypingGame.shoot returns the locked Word, stripped of one character, on a hit;
\* every keystroke that does not hit clears the lock and returns None.
C7_ShootPolicy ==
    [][ \A c \in Letters :
          Shoot(c) =>
            LET target == IF TGLocked THEN lock
                          ELSE LET ok == {i \in DOMAIN current :
                                            text[current[i]] # <<>>
                                            /\ Head(text[current[i]]) = c}
                               IN IF ok = {} THEN 0 ELSE current[Min(ok)]
                hit == target # 0 /\ Head(text[target]) = c
            IN IF hit
               THEN /\ ret' = target /\ lock' = target
                    /\ text' = [text EXCEPT ![target] = Tail(@)]
               ELSE /\ ret' = 0 /\ lock' = 0
                    /\ text' = text
      ]_vars

\* a miss on a partly typed locked word dropped the lock
C7_Witness ==
    /\ variant = "trash1"
    /\ tgLast # <<>> /\ tgLast[1] = "shoot"
    /\ ret = 0 /\ lock = 0
    /\ \E i \in DOMAIN current :
         text[current[i]] # <<>> /\ Len(text[current[i]]) < Len(vocabulary[current[i]])

\* C8: the active word list never holds the same word twice after a spawn
\* (TypingGame.current after spawn's result was added, Game.active_words after spawnmax).
C8_NoDuplicateActive ==
    /\ variant = "trash1" /\ tgLast = <<"spawn">> => NoDuplicates(current)
    /\ AfterSpawnmax => NoDuplicates(active_words)

\* the values next() returns from the chain `parts` over the Rect.update calls fs, up to
\* StopIteration
RECURSIVE Drain(_, _)
Drain(parts, fs) ==
    IF fs = <<>> THEN <<>>
    ELSE LET r == ChainNext(parts, Head(fs).d, Head(fs).up)
         IN  IF r.stop THEN <<>> ELSE <<r.value>> \o Drain(r.parts, Tail(fs))

\* C9: after Driver.run installed a sequence of N values, the Rect.update calls made
\* since then passed exactly its first values to setattr, one per call and in order;
\* the driver is live as long as every call got a value and idle (iterable None) from
\* the call after the N-th value on; the driven attribute holds the value assigned
\* last, also after every idle call.
C9_DriverAssignsInOrder ==
    variant = "driver" =>
        LET seq == Drain(installed, frames)
            N == Len(seq)
        IN  /\ Len(assigned) = N
            /\ \A i \in 1..N : assigned[i].value = seq[i]
            /\ driver.iterable.live <=> Len(frames) = N
            /\ ~driver.iterable.live => Len(frames) > N
            /\ N > 0 => GetAttr(rect, driver.attr) = TruncPoint(seq[N])

\* a two-part chain ran to its end, idle was reported and two more updates followed
C9_Witness ==
    /\ variant = "driver"
    /\ Len(installed) = 2
    /\ ~driver.iterable.live
    /\ Len(assigned) >= 5
    /\ Len(frames) >= Len(assigned) + 2
    /\ GetAttr(rect, driver.attr) = installed[2].seq2

InUnit(q) == 0 <= q[1] /\ q[1] <= q[2]

\* q lies between a and b
Within(a, q, b) ==
    /\ (IF a <= b THEN a ELSE b) * q[2] <= q[1]
    /\ q[1] <= (IF a <= b THEN b ELSE a) * q[2]

\* q is exactly the number b
Exactly(q, b) == q[1] = b * q[2]

\* the yields a lerpiter over `duration` can make when every frame adds at least the
\* smallest delta: those of the loop and the one after it
MaxYields(duration, delta) == duration \div delta + 2

RECURSIVE ChainMaxYields(_)
ChainMaxYields(parts) ==
    IF parts = <<>> THEN 0
    ELSE MaxYields(Head(parts).duration, Min(FrameDts)) + ChainMaxYields(Tail(parts))

\* C10: for positive frame deltas a lerpiter yields a bounded number of values; the
\* time fraction and the blend fraction of every value are in [0, 1] and the value lies
\* between a and b; the value yielded last is exactly b, and a driver that ran out left
\* the driven attribute exactly at the end position of its last interpolation.
C10_LerpEndsExactlyAtB ==
    /\ variant = "driver" =>
        /\ \A i \in DOMAIN assigned :
              LET y == assigned[i]
              IN  /\ InUnit(y.t) /\ InUnit(y.f)
                  /\ \A k \in 1..2 : Within(y.a[k], y.value[k], y.b[k])
        /\ Len(assigned) <= ChainMaxYields(installed)
        /\ ~driver.iterable.live /\ installed # <<>> =>
              LET b == installed[Len(installed)].seq2
              IN  /\ assigned # <<>>
                  /\ \A k \in 1..2 : Exactly(assigned[Len(assigned)].value[k], b[k])
                  /\ GetAttr(rect, driver.attr) = b
    /\ variant = "lerpiter" =>
        /\ \A i \in DOMAIN yielded :
              /\ InUnit(yielded[i].t) /\ InUnit(yielded[i].f)
              /\ Within(gen.a, yielded[i].value, gen.b)
        /\ Len(yielded) <= MaxYields(gen.duration,
                                     IF gen.kind = "trash1" THEN gen.step ELSE Min(FrameDts))
        /\ gen.pc = "done" =>
              /\ yielded # <<>>
              /\ Exactly(yielded[Len(yielded)].value, gen.b)

\* a sinlerp chain whose last frame overshot the duration ran out and left the
\* attribute at the end position
C10_Witness ==
    /\ variant = "driver"
    /\ ~driver.iterable.live
    /\ Len(installed) = 2
    /\ installed[2].lerpfunc = "sinlerp"
    /\ assigned # <<>>
    /\ frames[Len(assigned)].d = 400
    /\ \E i \in DOMAIN assigned : 0 < assigned[i].f[1] /\ assigned[i].f[1] < assigned[i].f[2]
    /\ GetAttr(rect, driver.attr) = installed[2].seq2

(***************************************************************************)
(* The call log of a frame.  The log is not kept between frames: a claim   *)
(* about the calls of a frame is stated for the frame Engine.step runs     *)
(* from a reachable state with every input it can poll.                    *)
(***************************************************************************)
Engines == IF variant = "engine" /\ engine.running THEN {engine} ELSE {}

\* the outcomes of the next Engine.step
NextFrames ==
    {Step(e, e.posted \o got, d) : e \in Engines, got \in Polls, d \in EngineDts}

\* the log of main()'s append for both values of --stepper
FirstAppends ==
    {StackAppend(Construct(NewEngine(flag), "MainmenuState"), "MainmenuState") : flag \in BOOLEAN}

Front(seq) == SubSeq(seq, 1, Len(seq) - 1)

Last(seq) == seq[Len(seq)]

Is(entry, op, cls, stack) == entry.op = op /\ entry.cls = cls /\ entry.stack = stack

\* the two entries that must follow an append or a pop logged at position i
AppendOrder(log, i) ==
    LET under == log[i].stack
    IN  IF under = <<>>
        THEN i + 1 <= Len(log) /\ Is(log[i + 1], "enter", log[i].cls, <<log[i].cls>>)
        ELSE /\ i + 2 <= Len(log)
             /\ Is(log[i + 1], "exit", Last(under), under)
             /\ Is(log[i + 2], "enter", log[i].cls, Append(under, log[i].cls))

PopOrder(log, i) ==
    LET rest == Front(log[i].stack)
    IN  /\ i + 1 <= Len(log)
        /\ Is(log[i + 1], "exit", log[i].cls, rest)
        /\ rest # <<>> => /\ i + 2 <= Len(log)
                          /\ Is(log[i + 2], "enter", Last(rest), rest)

\* every exit() and enter() of the log is the one an append or a pop just before it makes
Accounted(log, i) ==
    \/ log[i].op \notin {"exit", "enter"}
    \/ i > 1 /\ log[i - 1].op \in {"append", "pop"} /\ (log[i].op = "exit" \/ log[i - 1].stack = <<>>)
    \/ i > 2 /\ log[i - 2].op \in {"append", "pop"} /\ log[i - 1].op = "exit" /\ log[i].op = "enter"

StackOrder(log) ==
    \A i \in DOMAIN log :
        /\ log[i].op = "append" => AppendOrder(log, i)
        /\ log[i].op = "pop" => PopOrder(log, i)
        /\ Accounted(log, i)

\* C12: StateStack.append calls exit() on the old top while the new state is not
\* yet on the stack and enter() on the new state once it is; StateStack.pop
\* removes the top, calls its exit(), then enter() on the new top; with a state
\* underneath each push and each pop makes exactly one exit and one enter, in
\* that order.
C12_ExitThenEnter ==
    /\ \A r \in NextFrames : StackOrder(r.log)
    /\ \A r \in FirstAppends : StackOrder(r.log)

\* a GamePauseState was pushed on a GameState and the next frame can pop it
C12_Witness ==
    /\ variant = "engine"
    /\ Classes(engine.statestack) = <<"MainmenuState", "GameState", "GamePauseState">>
    /\ \E r \in NextFrames : \E i \in DOMAIN r.log : r.log[i].op = "pop"

\* the calls Engine makes on a state: its handlers and its update
StateCalls(log) == {i \in DOMAIN log : log[i].pos > 0}

\* C13: in every frame the update and the handlers Engine.step and
\* Engine.handle_event call are those of the state that is on top of the stack
\* at the time of the call (at most one update per frame); nothing of a state
\* below the top is called.
C13_OnlyTopRuns ==
    \A r \in NextFrames :
        /\ \A i \in StateCalls(r.log) :
              /\ r.log[i].pos = Len(r.log[i].stack)
              /\ r.log[i].cls = Last(r.log[i].stack)
        /\ Cardinality({i \in DOMAIN r.log : r.log[i].op = "update"}) <= 1

\* a frame with a state below the top in which a handler of the top state and
\* its update run
C13_Witness ==
    /\ variant = "engine"
    /\ Len(engine.statestack) >= 2
    /\ \E r \in NextFrames :
          /\ \E i \in StateCalls(r.log) : r.log[i].op = "handler" /\ r.log[i].pos >= 2
          /\ \E i \in StateCalls(r.log) : r.log[i].op = "update" /\ r.log[i].pos >= 2

\* the positions of the log at which the engine's own handler was called
EngineCalls(log) == {i \in DOMAIN log : log[i].op = "handler" /\ log[i].cls = "Engine"}

\* the state handler Engine.handle_event has to call after the engine's own
\* handler logged at position i: the one of the top state, if that state defines
\* a handler for the event and its handlers are enabled
StateHandlerDue(log, i) ==
    /\ log[i].stack # <<>>
    /\ Defines(Last(log[i].stack), EventName(log[i].event))
    /\ Last(log[i].enabled)

FollowedByStateHandler(log, i) ==
    /\ i + 1 <= Len(log)
    /\ log[i + 1].op = "handler"
    /\ log[i + 1].pos = Len(log[i].stack)
    /\ log[i + 1].event = log[i].event

\* the events passed to the handlers of the engine (cls = "Engine") or to those of
\* the states (any other cls), in the order of the calls
RECURSIVE Calls(_, _)
Calls(log, cls) ==
    IF log = <<>> THEN <<>>
    ELSE IF Head(log).op = "handler" /\ (Head(log).cls = "Engine") = (cls = "Engine")
         THEN <<Head(log).event>> \o Calls(Tail(log), cls)
         ELSE Calls(Tail(log), cls)

\* C14: for every event it handles, in order, Engine.handle_event calls the
\* engine's own handler first and then the handler of the state on top of the
\* stack, exactly when that state defines one for the event and has its handlers
\* enabled; a state handler is called only right after the engine's handler for
\* the same event, and never while disabled.
C14_EngineThenState ==
    \A r \in NextFrames :
        /\ Calls(r.log, "Engine") = r.handled
        /\ \A i \in EngineCalls(r.log) :
              StateHandlerDue(r.log, i) <=> FollowedByStateHandler(r.log, i)
        /\ \A i \in StateCalls(r.log) :
              r.log[i].op = "handler" =>
                  /\ i - 1 \in EngineCalls(r.log)
                  /\ r.log[i - 1].event = r.log[i].event
                  /\ r.log[i].enabled[r.log[i].pos]

\* a frame in which an event goes to the engine's handler and then to the top
\* state's, and a later key event of the same frame only to the engine's because
\* the top state's handlers are disabled by then
C14_Witness ==
    /\ variant = "engine"
    /\ \E r \in NextFrames : \E i \in EngineCalls(r.log) :
          /\ FollowedByStateHandler(r.log, i)
          /\ \E j \in EngineCalls(r.log) : j > i /\ ~StateHandlerDue(r.log, j)
                                            /\ r.log[j].event \notin {"QUIT"}

\* the engine is in single-step mode and waits for a step trigger
Held(e) == e.stepper /\ ~e.do_step

StepTriggers == {"TAB", "SHIFT_TAB"}

\* C15: when the buffer is released, the buffered events are handled in the
\* order in which they arrived, before the events polled in the releasing frame.
C15_ReleasedInArrivalOrder ==
    \A r \in NextFrames :
        engine.do_step => r.handled = engine.buffered_events \o r.polled

\* C16: in single-step mode a frame that polls no step trigger only buffers
\* its events: no handler of the active state is called with them, and the
\* active state and the sprites are not updated.
C16_HeldFrameOnlyBuffers ==
    \A r \in NextFrames :
        Held(engine) /\ (\A i \in DOMAIN r.polled : r.polled[i] \notin StepTriggers) =>
            /\ r.buffered_events = engine.buffered_events \o r.polled
            /\ StateCalls(r.log) = {}
            /\ ~r.stepped
            /\ r.statestack = engine.statestack
            /\ r.sprites = engine.sprites

\* the frame after the engine e polled the events got
FrameAfter(e, got) == Step(e, e.posted \o got, CHOOSE d \in EngineDts : TRUE)

Updates(log) == Cardinality({i \in DOMAIN log : log[i].op = "update"})

\* C17: with stepping on, one SHIFT+TAB turns it off and the engine then updates
\* in that frame and in every following frame, stepper staying False, as long as
\* no other SHIFT+TAB is pressed; with stepping on, a TAB makes exactly one
\* update and leaves stepping on.
C17_ToggleAndStep ==
    \A e \in Engines :
        Held(e) /\ e.posted = <<>> =>
            /\ LET off == FrameAfter(e, <<"SHIFT_TAB">>)
               IN  /\ ~off.stepper /\ Updates(off.log) = 1
                   /\ \A got \in Polls :
                         got # <<"SHIFT_TAB">> /\ off.posted = <<>> =>
                             LET next == FrameAfter(Between(off), got)
                             IN  ~next.stepper /\ Updates(next.log) = 1
            /\ LET one == FrameAfter(e, <<"TAB">>)
               IN  one.stepper /\ ~one.do_step /\ Updates(one.log) = 1

\* the engine runs freely with an active GameState on top
Playing(e) ==
    /\ ~e.stepper /\ e.do_step /\ e.posted = <<>> /\ e.buffered_events = <<>>
    /\ e.statestack # <<>> /\ Top(e).cls = "GameState" /\ Top(e).enabled

\* a GamePauseState pushed and popped at once leaves the members of g.sprites
PauseAtOnceRestores ==
    \A e \in Engines :
        Playing(e) =>
            Members(StackPop(StackAppend(e, "GamePauseState")).sprites) = Members(e.sprites)

\* once the GameState pushed on the main menu is popped, g.sprites holds the
\* members it had before that push
MenuRestored ==
    \A e \in Engines :
        Classes(e.statestack) = <<"MainmenuState">> => Members(e.sprites) = Members(MenuSprites)

\* the members of g.sprites at the pushes of a frame, and once a pop of a frame
\* has called exit()
AtPush(log) == {log[i].members : i \in {j \in DOMAIN log : log[j].op = "append"}}

AfterPop(log) == {log[i + 2].members : i \in {j \in DOMAIN log : log[j].op = "pop"}}

\* a GamePauseState pushed in one frame and popped in the next
PauseOverAFrameRestores ==
    \A e \in Engines, got \in Polls :
        Playing(e) =>
            LET pushing == FrameAfter(e, got \o <<"ESCAPE">>)
                popping == FrameAfter(Between(pushing), <<"ESCAPE">>)
            IN  \A before \in AtPush(pushing.log), after \in AfterPop(popping.log) :
                    before = after

\* C11: a push followed by the pop of the pushed state leaves g.sprites with the
\* members it had before the push: GamePauseState on GameState, popped at once or
\* a frame later, and GameState on MainmenuState.
C11_PushPopRestoresSprites ==
    PauseAtOnceRestores /\ MenuRestored /\ PauseOverAFrameRestores

\* the iterations the loop of Game.spawnmax can make next: "raise" for a draw of
\* a length without words, "admit" for a draw that extends active_words,
\* "reject" for a draw that leaves everything as it is
Draws ==
    LET lengths == game.minletters..game.maxletters
    IN  {"raise" : nletters \in {n \in lengths : Bucket(n) = {}}}
        \cup {IF Admits(active_words, word) THEN "admit" ELSE "reject" :
                 word \in UNION {Bucket(nletters) : nletters \in lengths}}

InSpawnmaxLoop == variant = "zpype" /\ zPc = "spawnmax" /\ Len(active_words) < game.maxspawn

\* C18: Game.spawnmax terminates whatever the dictionary and active_words hold:
\* its loop is never in a state that no draw can leave.
C18_SpawnmaxTerminates == InSpawnmaxLoop => Draws \cap {"admit", "raise"} # {}

\* C19: a spawn operation that cannot find the requested words does not raise:
\* neither TypingGame.spawn nor Game.spawnmax ends with an exception.
C19_SpawnDoesNotRaise ==
    [][/\ variant = "trash1" => tgPc' # "raised"
       /\ variant = "zpype" /\ zPc = "spawnmax" => zPc' # "raised"]_vars

\* C20: with {"cat", "dog", "ant"}, maxspawn 2 and the default length range a
\* spawnmax that starts from no active words (any spawnmax of the first game)
\* ends, whatever is drawn, with exactly 2 active words with different first
\* letters.
C20_DefaultRangeSpawnsTwo ==
    [][variant = "zpype" /\ game = DefaultRangeGame /\ games = 1 /\ zPc = "spawnmax" =>
          /\ zPc' # "raised"
          /\ zPc' = "run" => /\ Len(active_words') = 2
                             /\ Head(active_words'[1]) # Head(active_words'[2])]_vars

\* C21: a bullet whose target was destroyed before the bullet landed expires
\* without effect: Bullet.update leaves the health of a ship that is no longer
\* alive as it is.
C21_DeadTargetUnharmed ==
    [][\A d \in DtSet :
          BulletFrame(d) /\ ~groups[1].alive => groups'[1].health = groups[1].health]_vars

\* the bullets of grp that reach Bullet.duration in a frame with g.dt = d
Impacts(grp, d) == {i \in DOMAIN grp.bullets : grp.bullets[i] + d >= BulletDuration}

\* what one frame does to a ship that is alive: every bullet that lands leaves
\* g.sprites and takes one health, and the ship dies exactly if that gives 0
ImpactEffect(before, after, d) ==
    LET n == Cardinality(Impacts(before, d))
    IN  /\ Len(after.bullets) = Len(before.bullets) - n
        /\ after.health = before.health - n
        /\ after.alive <=> after.health > 0

\* C22: a ship is created with health = len(word); every bullet impact takes
\* exactly 1 health, once per bullet; nothing else changes health; the ship is
\* destroyed exactly at the impact that brings health to 0, never while health
\* stays above 0.
C22_HealthCountsImpacts ==
    /\ [](variant = "bullet" /\ groups[1].letters = groups[1].shipword =>
             groups[1].health = Len(groups[1].shipword))
    /\ [](variant = "zpype" =>
             \A i \in DOMAIN groups :
                 /\ groups[i].alive /\ groups[i].health >= 1
                 /\ groups[i].health = Len(groups[i].letters) + Len(groups[i].bullets))
    /\ [][variant = "bullet" /\ groups[1].alive =>
             /\ \A d \in DtSet : BulletFrame(d) => ImpactEffect(groups[1], groups'[1], d)
             /\ BulletShoot => groups'[1].health = groups[1].health /\ groups'[1].alive]_vars

\* "cat": two bullets have landed and left the ship alive with health 1, the
\* third is in flight
C22_Witness ==
    /\ variant = "bullet"
    /\ groups[1].shipword = wCat
    /\ groups[1].alive /\ groups[1].health = 1
    /\ groups[1].letters = <<>> /\ Len(groups[1].bullets) = 1

\* the remaining words of the enemy groups that still have one, in creation order
RECURSIVE RemainingWords(_)
RemainingWords(gs) ==
    IF gs = <<>> THEN <<>>
    ELSE IF Head(gs).word = <<>> THEN RemainingWords(Tail(gs))
    ELSE <<Head(gs).word>> \o RemainingWords(Tail(gs))

\* C23: between keystrokes the LetterSprites of every enemy group on screen,
\* read in order, spell the group's remaining word, and the remaining words of
\* the groups are, entry by entry, Game.active_words: a keystroke that kills a
\* head letter sprite strips the head of both words.
C23_LettersSpellWord ==
    variant = "zpype" /\ zPc = "run" =>
        /\ \A i \in DOMAIN groups : groups[i].letters = groups[i].word
        /\ RemainingWords(groups) # <<>> => RemainingWords(groups) = active_words

\* two groups, the second typed at: "at" is left of it, as letters, as the
\* group's word and as the second active word
C23_Witness ==
    /\ variant = "zpype" /\ zPc = "run"
    /\ Len(groups) = 2 /\ Len(active_words) = 2
    /\ groups[2].shipword = wCat
    /\ groups[2].letters = <<"a", "t">>
    /\ groups[2].word = <<"a", "t">>
    /\ active_words[2] = <<"a", "t">>
    /\ groups[1].letters = groups[1].shipword

\* Shooter.locked refers to a Word sprite that is in the group and has letters left
ShooterLockAlive == variant = "trash3" /\ locked # 0 => locked \in group /\ letters[locked] # <<>>

\* a TypingGame.shoot that finds the lock on an exhausted word does not resolve the
\* keystroke against it
ExhaustedLockDropped ==
    [][\A c \in Letters : Shoot(c) /\ lock # 0 /\ text[lock] = <<>> => lock' # lock]_vars

\* whenever GameState can be handed a keystroke, typing_at is None or the word of
\* an enemy group whose ship is alive
TypingAtAlive ==
    variant = "zpype" /\ zState = "Game" /\ zPc = "run" /\ typing_at # <<>> =>
        /\ typing_at[1] # <<>>
        /\ \E i \in DOMAIN groups : groups[i].alive /\ groups[i].word = typing_at[1]

\* C24: when a keystroke is resolved the lock (GameState.typing_at,
\* Shooter.locked, TypingGame.lock) never refers to a dead target: a word that is
\* exhausted or whose group is no longer alive has lost the lock before.
C24_LockNeverDead == []ShooterLockAlive /\ ExhaustedLockDropped /\ []TypingAtAlive

\* event.unicode is one lower-case letter
SingleLetter(unicode) == Len(unicode) = 1 /\ unicode[1] \in Range(AsciiLowercase)

\* C25: a key event whose character is not a single letter (no character,
\* several characters, or a character that is no letter) is ignored: no word
\* changes, the lock stays as it is and nothing is raised, in
\* GameplayState.on_KeyDown with TypingGame.shoot and in GameState.on_KEYDOWN
\* with do_typed.
C25_NonLetterIgnored ==
    [][/\ \A key \in Keycodes, unicode \in OtherUnicodes, playing \in BOOLEAN :
             OnKeyDown(key, unicode, playing) /\ ~SingleLetter(unicode) =>
                 text' = text /\ lock' = lock /\ tgPc' = "run"
       /\ \A unicode \in OtherUnicodes :
             Len(unicode) <= 1 /\ OnKeydownOther(unicode) /\ ~SingleLetter(unicode) =>
                 UNCHANGED <<active_words, typing_at, groups>> /\ zPc' = "run"]_vars

\* the phase method on top of a state's brain, "none" for an empty brain
Phase(state) == IF state.brain = <<>> THEN "none" ELSE Last(state.brain)

\* C26: while the intro phase is on top of GameState's brain its event
\* handlers are disabled (no keystroke is resolved, no pause is pushed); they
\* are enabled only once gameplay_init has pushed the gameplay phase.
C26_IntroHandlersDisabled ==
    variant = "engine" =>
        \A i \in DOMAIN engine.statestack :
            LET state == engine.statestack[i]
            IN  state.cls = "GameState" /\ Phase(state) = "intro" => ~state.enabled

\* a frame that starts with a GamePauseState on top of the stack and neither pops
\* nor pushes a state
PauseFrame(e, r) ==
    /\ Top(e).cls = "GamePauseState"
    /\ \A i \in DOMAIN r.log : r.log[i].op \notin {"pop", "append"}

\* C27: while GamePauseState is on top of the stack the entities of the
\* suspended GameState do not change: in a frame of the pause no ship is
\* updated, loses health or is destroyed, and no explosion is created.
C27_PauseFreezesGame ==
    \A r \in NextFrames :
        PauseFrame(engine, r) =>
            /\ OfKind(r.sprites, "ship") = OfKind(engine.sprites, "ship")
            /\ Members(OfKind(r.sprites, "explosion")) \subseteq
                   Members(OfKind(engine.sprites, "explosion"))

\* a placement loop is about to draw a position
InPlacementLoop ==
    /\ variant = "placement" /\ placing.pc = "loop"
    /\ placing.placer = "framework" => Collides(placing.box, placing.others)
    /\ placing.placer = "trash3" => placing.others # {}

\* C28: placing a new enemy always terminates, also when no collision-free
\* position is left: the placement loop is never in a state that no sample can
\* leave.
C28_PlacementTerminates ==
    InPlacementLoop => \E x \in Samples(placing.placer) : ~Collides(x, placing.others)

\* GameState.gameplay goes into do_spawn in this step (variant "zpype")
EntersDoSpawn == variant = "zpype" /\ zPc = "run" /\ zPc' = "spawnmax"

\* g.sprites holds more Enemy sprites after this frame than before (variant
\* "engine"; a ship that was hit is the same sprite with less health)
EnemyJoins ==
    /\ variant = "engine"
    /\ Cardinality({s \in engine'.sprites : IsEnemy(s)})
         > Cardinality({s \in engine.sprites : IsEnemy(s)})

\* GameplayState.playing pushes the spawn phase in this step (variant "waves")
PushesSpawn ==
    /\ variant = "waves"
    /\ Len(gameplaystate'.methodstack) > Len(gameplaystate.methodstack)
    /\ \E i \in (Len(gameplaystate.methodstack) + 1)..Len(gameplaystate'.methodstack) :
          gameplaystate'.methodstack[i] = "spawn"

\* C29: a new wave is spawned only when none is left of the previous one:
\* GameState.gameplay calls do_spawn only when g.sprites holds no Enemy, and
\* GameplayState.playing pushes spawn, with wave raised by exactly one, only when
\* no enemy group and no live explosion remains; wave changes in no other step.
C29_SpawnOnlyWhenCleared ==
    [][/\ EntersDoSpawn => zState = "Game" /\ NoEnemy
       /\ EnemyJoins => ~\E s \in engine.sprites : IsEnemy(s)
       /\ PushesSpawn =>
             /\ gameplaystate.enemygroups = <<>>
             /\ LiveExplosions(gameplaystate) = 0
             /\ gameplaystate'.wave = gameplaystate.wave + 1
             /\ gameplaystate'.methodstack =
                    gameplaystate.methodstack \o <<"spawn", "intro_wave">>
       /\ variant = "waves" /\ gameplaystate'.wave # gameplaystate.wave => PushesSpawn
      ]_vars

\* the second wave of a GameplayState was spawned after the first was shot down
C29_Witness ==
    /\ variant = "waves"
    /\ gameplaystate.wave = 2
    /\ gameplaystate.enemygroups # <<>>

\* the three stacks of a run of main()
StackShapes ==
    { <<"MainmenuState">>,
      <<"MainmenuState", "GameState">>,
      <<"MainmenuState", "GameState", "GamePauseState">> }

\* C30: after any sequence of key events and frames g.statestack is
\* [MainmenuState], [MainmenuState, GameState] or [MainmenuState, GameState,
\* GamePauseState]: never empty, never two GameStates, and a GamePauseState only
\* directly above a GameState.
C30_StackShapes ==
    variant = "engine" => Classes(engine.statestack) \in StackShapes

\* a game was started, paused and left through the pause menu: three appends,
\* and the menu is alone on the stack again
C30_Witness ==
    /\ variant = "engine"
    /\ engine.appends = 3
    /\ Classes(engine.statestack) = <<"MainmenuState">>

\* a GameState that runs its gameplay phase and whose brain holds no intro: it was
\* not paused before its first intro ended
InGameplay(state) ==
    /\ state.cls = "GameState"
    /\ state.brain # <<>>
    /\ Last(state.brain) = "gameplay"
    /\ \A i \in DOMAIN state.brain : state.brain[i] # "intro"

\* C31: a pause followed by a resume returns GameState to where it was: once the
\* intro of the re-entry has ended the brain holds what it held before the pause,
\* the single phase gameplay, whatever the number of pauses.
C31_ResumeRestoresBrain ==
    variant = "engine" =>
        \A i \in DOMAIN engine.statestack :
            InGameplay(engine.statestack[i]) => engine.statestack[i].brain = <<"gameplay">>

\* C32: Shooter.attack counts every keystroke exactly once, as a hit or as a
\* miss: after any sequence of attack calls hits + misses = total, and kills <= hits.
C32_EveryKeystrokeCounted ==
    variant = "trash3" => hits + misses = total /\ kills <= hits

\* a word was shot down and two keystrokes missed
C32_Witness ==
    /\ variant = "trash3"
    /\ kills >= 1
    /\ misses >= 2

\* the health of a live ship is accounted for by the letters still to type and the
\* bullets in flight
HealthAccounted(grp) == grp.health = Len(grp.word) + Len(grp.bullets)

\* the next g.sprites.update() destroys the ship only if no letter is left to type
\* and no bullet stays in flight
DestroyedWhenDone(grp) ==
    \A d \in DtSet :
        ~BulletsUpdate(grp, d).alive =>
            grp.word = <<>> /\ BulletsUpdate(grp, d).bullets = <<>>

Untouched(grp) == grp.word = grp.shipword /\ grp.letters = grp.shipword

\* C34: from the keystroke that takes a lock until the locked word is used up,
\* every hit strips a letter from, and fires a bullet at, the same EnemyGroup: in the
\* first game, a keystroke typed under a lock leaves every group alone that no
\* letter was typed of, also when its word equals what is left of the locked word.
C34_HitsStayOnLockedGroup ==
    [][\A c \in Letters :
          Typed(c) /\ typing_at # <<>> /\ games = 1 =>
              /\ Len(groups') = Len(groups)
              /\ \A i \in DOMAIN groups : Untouched(groups[i]) => groups'[i] = groups[i]
      ]_vars

\* how often event occurs in a sequence of events
Occurrences(events, event) == Cardinality({i \in DOMAIN events : events[i] = event})

\* C35: every event Engine.step polls is passed to Engine.handle_event exactly
\* once over the whole run, with stepping held or not: in every frame, each event
\* that was buffered or is polled is either handled in this frame or kept in the
\* buffer for a later one, never both and never neither.
C35_EachEventHandledOnce ==
    \A r \in NextFrames :
        \A event \in Events :
            Occurrences(r.handled, event) + Occurrences(r.buffered_events, event)
                = Occurrences(engine.buffered_events, event) + Occurrences(r.polled, event)

\* the outro phases on the brain of a state
Outros(state) == {i \in DOMAIN state.brain : state.brain[i] = "outro"}

\* RETURN was pressed in the menu and its outro has not ended: the handlers of the
\* menu are disabled and a single outro is on its brain
MenuLeaving ==
    \A i \in DOMAIN engine.statestack :
        LET state == engine.statestack[i]
        IN  state.cls = "MainmenuState" /\ Outros(state) # {} =>
                ~state.enabled /\ Cardinality(Outros(state)) = 1

\* the menu is under another state: its handlers are still disabled
MenuBelow ==
    \A i \in DOMAIN engine.statestack :
        engine.statestack[i].cls = "MainmenuState" /\ i < Len(engine.statestack) =>
            ~engine.statestack[i].enabled

\* the frame in which the menu stops being the top of the stack pushes one
\* GameState, by one append, and takes the outro from the menu's brain
OneGameStatePushed ==
    Classes(engine.statestack) = <<"MainmenuState">>
        /\ Classes(engine'.statestack) # <<"MainmenuState">> =>
            /\ Outros(engine.statestack[1]) # {}
            /\ Classes(engine'.statestack) = <<"MainmenuState", "GameState">>
            /\ engine'.appends = engine.appends + 1
            /\ Outros(engine'.statestack[1]) = {}

\* C36: after RETURN in MainmenuState the handlers of the menu stay disabled
\* until the menu is entered again, and exactly one GameState is pushed when the
\* outro ends, whatever keys are pressed in the meantime.
C36_OneGameStatePerReturn ==
    /\ [](variant = "engine" => MenuLeaving /\ MenuBelow)
    /\ [][variant = "engine" => OneGameStatePushed]_vars

\* the outro has ended: a GameState is on the menu, whose handlers are disabled
C36_Witness ==
    /\ variant = "engine"
    /\ Classes(engine.statestack) = <<"MainmenuState", "GameState">>
    /\ ~engine.statestack[1].enabled
    /\ Outros(engine.statestack[1]) = {}

\* C37: typing a word does not change the vocabulary: TypingGame.shoot leaves
\* the set of words TypingGame.allowable returns unchanged, so a word shot down in
\* one wave can be spawned again in a later one.
C37_ShootKeepsVocabulary ==
    [][\A c \in Letters : Shoot(c) => allowable' = allowable]_vars

\* the word do_typed passes to kill_letter and hit_word for a letter, <<>> if none
TypedTarget(letter) ==
    IF typing_at = <<>> THEN Find(active_words, letter)
    ELSE IF StartsWith(typing_at[1], letter) THEN typing_at ELSE <<>>

\* C38: after every keystroke GameState.typing_at is None or a non-empty string
\* that is an entry of g.game.active_words, and active_words holds no empty
\* string; so Game.hit_word is never called with a word that active_words lacks.
C38_TypingAtIsActive ==
    variant = "zpype" =>
        /\ typing_at # <<>> =>
              typing_at[1] # <<>> /\ \E i \in DOMAIN active_words : active_words[i] = typing_at[1]
        /\ \A i \in DOMAIN active_words : active_words[i] # <<>>
        /\ \A c \in Letters :
              TypedTarget(c) # <<>> =>
                  ~HitWord(active_words, admitted, TypedTarget(c)[1]).raised

\* the last letter of the second active word is being typed at
C38_Witness ==
    /\ variant = "zpype" /\ zState = "Game"
    /\ Len(active_words) = 2
    /\ typing_at # <<>>
    /\ Len(typing_at[1]) = 1
    /\ active_words[2] = typing_at[1]

\* the ship of the EnemyGroup is in g.sprites
ShipAlive(grp) == grp.alive

\* C39: at the end of every frame each entry of g.game.active_words is carried
\* by exactly one live EnemyGroup with the same remaining word, also after a game
\* was abandoned to the main menu and a new GameState was started: the remaining
\* words of the live groups are, one for one, the active words, so that no active
\* word is left without a ship.
C39_ActiveWordsHaveShips ==
    variant = "zpype" /\ zPc = "run" =>
        RemainingWords(SelectSeq(groups, ShipAlive)) = active_words

\* a dictionary from which Game.spawnmax can always fill the wave: no length of
\* the range has an empty bucket, and the words of the range have at least
\* maxspawn different first letters
CanFill ==
    /\ \A n \in game.minletters..game.maxletters : Bucket(n) # {}
    /\ Cardinality({Head(w) : w \in UNION {Bucket(n) : n \in game.minletters..game.maxletters}})
         >= game.maxspawn

\* GameState is on top, every active word was typed to its end and ships are left
AllTyped ==
    /\ variant = "zpype" /\ zState = "Game" /\ zPc = "run"
    /\ CanFill
    /\ active_words = <<>>
    /\ ~NoEnemy

\* the game was left for the main menu
Abandoned == zState # "Game"

\* do_spawn has put a full wave of untouched groups on the screen
NewWave ==
    /\ zPc = "run"
    /\ Len(active_words) = game.maxspawn
    /\ \E i \in DOMAIN groups : groups[i].alive /\ Untouched(groups[i])

\* C40: in the gameplay phase, with frames that keep advancing by a positive g.dt
\* and the game not quit, once every active word is typed to its end every ship
\* is eventually destroyed and a new wave is eventually spawned, for a dictionary
\* from which spawnmax can fill the wave.
C40_TypedWaveIsReplaced ==
    /\ AllTyped ~> (NoEnemy \/ Abandoned)
    /\ AllTyped ~> (NewWave \/ Abandoned)

\* every word is typed and the last bullet is on its way to the last ship
C40_Witness ==
    /\ AllTyped
    /\ \A i \in DOMAIN groups :
          groups[i].alive => groups[i].health = 1 /\ Len(groups[i].bullets) = 1

====
